---- MODULE Spec2Model ----
(***************************************************************************)
(* Model of the looper application: the timestamp store of                 *)
(* src/app/model.py (TimestampDelta, Timestamp, TimestampList,             *)
(* TimestampModel, ToggleButtonModel) and the loop controller of           *)
(* src/gui/main_window.py (MainWindow), together with the part of the      *)
(* external VLC player and of the file system that the two talk to.        *)
(*                                                                         *)
(* A text is a sequence of one-character strings, so that splitting,       *)
(* int() and %-formatting are computed character by character.  Python's   *)
(* None is the empty tuple <<>> and a present value v is <<v>>.            *)
(***************************************************************************)
EXTENDS Integers, Sequences, FiniteSets, TLC

None == <<>>
Some(v) == <<v>>

(***************************************************************************)
(* Text helpers: str.split(sep, maxsplit), int(), "%0Nd" % n               *)
(***************************************************************************)
DigitChars == <<"0", "1", "2", "3", "4", "5", "6", "7", "8", "9">>

IsDigit(c) == \E i \in 1..10 : DigitChars[i] = c

DigitVal(c) == (CHOOSE i \in 1..10 : DigitChars[i] = c) - 1

\* index of the first occurrence of character c in s, 0 when there is none
IndexOf(s, c) ==
    IF \E i \in 1..Len(s) : s[i] = c
    THEN CHOOSE i \in 1..Len(s) : s[i] = c /\ \A j \in 1..(i - 1) : s[j] # c
    ELSE 0

\* s.split(sep, 1): one or two parts
Split1(s, sep) ==
    LET i == IndexOf(s, sep)
    IN IF i = 0 THEN <<s>>
       ELSE <<SubSeq(s, 1, i - 1), SubSeq(s, i + 1, Len(s))>>

\* s.split(sep, 2): one, two or three parts
Split2(s, sep) ==
    LET first == Split1(s, sep)
    IN IF Len(first) = 1 THEN first
       ELSE <<first[1]>> \o Split1(first[2], sep)

\* the white space that str.strip() takes off: the characters for which
\* str.isspace() holds, up to U+00FF (a TLA+ string holds no character above
\* it, so the texts of the model hold none): tab, line feed, vertical tab,
\* form feed, carriage return, U+001C..U+001F, space, U+0085 and U+00A0
IsSpace(c) ==
    c \in {" ", "\t", "\n", "\r", "\f", "", "", "", "", "", "", " "}

\* the white space that int() takes off: that of str.strip() but U+001C..U+001F
IsIntSpace(c) == IsSpace(c) /\ c \notin {"", "", "", ""}

RECURSIVE StripLeft(_)
StripLeft(s) == IF Len(s) > 0 /\ IsSpace(s[1]) THEN StripLeft(Tail(s)) ELSE s

RECURSIVE StripRight(_)
StripRight(s) ==
    IF Len(s) > 0 /\ IsSpace(s[Len(s)]) THEN StripRight(SubSeq(s, 1, Len(s) - 1)) ELSE s

Strip(s) == StripLeft(StripRight(s))

RECURSIVE IntStripLeft(_)
IntStripLeft(s) == IF Len(s) > 0 /\ IsIntSpace(s[1]) THEN IntStripLeft(Tail(s)) ELSE s

RECURSIVE IntStripRight(_)
IntStripRight(s) ==
    IF Len(s) > 0 /\ IsIntSpace(s[Len(s)])
    THEN IntStripRight(SubSeq(s, 1, Len(s) - 1)) ELSE s

IntStrip(s) == IntStripLeft(IntStripRight(s))

RECURSIVE DigitsValue(_)
DigitsValue(s) ==
    IF Len(s) = 0 THEN 0
    ELSE 10 * DigitsValue(SubSeq(s, 1, Len(s) - 1)) + DigitVal(s[Len(s)])

\* the digits of an integer literal: digits, with single underscores allowed
\* between two of them
IsDigits(body) ==
    /\ Len(body) > 0
    /\ \A i \in 1..Len(body) : IsDigit(body[i]) \/ body[i] = "_"
    /\ \A i \in 1..Len(body) :
           body[i] = "_" => /\ i > 1 /\ i < Len(body)
                            /\ IsDigit(body[i - 1]) /\ IsDigit(body[i + 1])

\* the digits of an integer without its leading zeros
Significant(s) ==
    IF \E i \in 1..Len(s) : s[i] # "0"
    THEN SubSeq(s, CHOOSE i \in 1..Len(s) :
                       s[i] # "0" /\ \A j \in 1..(i - 1) : s[j] = "0", Len(s))
    ELSE IF Len(s) = 0 THEN s ELSE <<"0">>

\* sys.int_info.default_max_str_digits: the most digits int() converts
MaxStrDigits == 4300

\* the magnitude kept in `v` for an integer of more than nine digits
IntCap == 10 ^ 9

\* int() of a stripped text whose sign has been taken off. A Python int has
\* no bound: `digits` holds its magnitude exactly, and `v` is the integer
\* when it has at most nine digits and IntCap (with its sign) for a longer
\* one, which the parser only compares with 0, 60 and 1000. A literal of
\* more than MaxStrDigits digits (its leading zeros counted, its underscores
\* not) raises ValueError.
PyIntBody(body, negative) ==
    IF IsDigits(body) /\ Len(SelectSeq(body, IsDigit)) <= MaxStrDigits
    THEN LET digits == Significant(SelectSeq(body, IsDigit))
             n == IF Len(digits) > 9 THEN IntCap ELSE DigitsValue(digits)
         IN [ok |-> TRUE, v |-> IF negative THEN 0 - n ELSE n, digits |-> digits]
    ELSE [ok |-> FALSE, v |-> 0, digits |-> <<>>]

\* int() of a stripped text
PyIntStripped(s) ==
    IF Len(s) > 0 /\ s[1] \in {"+", "-"} THEN PyIntBody(Tail(s), s[1] = "-")
    ELSE PyIntBody(s, FALSE)

\* Python int(text) on the modelled alphabet: surrounding blanks are
\* stripped, one sign is allowed, and at least one digit must follow;
\* single underscores may separate digits.
\* The result is [ok |-> TRUE, v |-> n, digits |-> the digits of |n|] or
\* [ok |-> FALSE, ...] (ValueError).
PyInt(text) == PyIntStripped(IntStrip(text))

\* "%d" % n for n >= 0
RECURSIVE FormatD(_)
FormatD(n) ==
    IF n < 10 THEN <<DigitChars[n + 1]>>
    ELSE FormatD(n \div 10) \o <<DigitChars[(n % 10) + 1]>>

RECURSIVE ZeroPad(_, _)
ZeroPad(s, width) == IF Len(s) >= width THEN s ELSE ZeroPad(<<"0">> \o s, width)

\* "%0<width>d" % n for n >= 0
FormatPadded(n, width) == ZeroPad(FormatD(n), width)

(***************************************************************************)
(* TimestampDelta: a datetime.timedelta, kept as Python normalises it      *)
(* (days, seconds in [0, 86400), microseconds in [0, 10^6))                *)
(***************************************************************************)
\* TimestampDelta(milliseconds=0)
ZeroDelta == [days |-> 0, seconds |-> 0, microseconds |-> 0]

RaiseValueError == [kind |-> "ValueError", value |-> ZeroDelta]

RaiseIndexError == [kind |-> "IndexError", value |-> ZeroDelta]

RaiseOverflowError == [kind |-> "OverflowError", value |-> ZeroDelta]

\* the most days a timedelta holds: a larger magnitude raises OverflowError
MaxDays == 999999999

\* a non-negative int of units, `per_day` of them a day, given by its digits
\* and divided digit by digit: the whole days, the units left over, and
\* whether the days exceed MaxDays (the division stops there)
RECURSIVE DaysOf(_, _, _, _)
DaysOf(digits, per_day, days, rest) ==
    IF Len(digits) = 0 THEN [days |-> days, rest |-> rest, overflow |-> FALSE]
    ELSE LET x == rest * 10 + DigitVal(digits[1])
         IN IF days > (MaxDays - x \div per_day) \div 10
            THEN [days |-> MaxDays, rest |-> 0, overflow |-> TRUE]
            ELSE DaysOf(Tail(digits), per_day, days * 10 + x \div per_day,
                        x % per_day)

\* TimestampDelta(hours=, minutes=, seconds=, milliseconds=) for hours >= 0
\* given by their digits and the other three as integers in the ranges the
\* parser lets through: the normalised delta, or the OverflowError of
\* timedelta when the days exceed MaxDays
TimestampDelta(hours, minutes, seconds, milliseconds) ==
    LET d == DaysOf(hours, 24, 0, 0)
        rest == (d.rest * 60 + minutes) * 60 + seconds
    IN IF d.overflow \/ d.days + rest \div 86400 > MaxDays THEN RaiseOverflowError
       ELSE [kind |-> "ok",
             value |-> [days |-> d.days + rest \div 86400,
                        seconds |-> rest % 86400,
                        microseconds |-> milliseconds * 1000]]

\* TimestampDelta.milliseconds (property): int(ms / 1000) with
\* ms = seconds * 1000000 + microseconds + days * 24 * 60 * 60 * 100000.
\* microseconds is a multiple of 1000 in every delta the program builds,
\* so the quotient is computed term by term, each term divided by 1000
\* (a day counts 24 * 60 * 60 * 100 here, as the source's factor makes it).
Milliseconds(d) ==
    d.seconds * 1000 + d.microseconds \div 1000 + d.days * (24 * 60 * 60 * 100)

\* a __str__ that does not reduce the minutes modulo 60
DeltaStr_minutes_unsplit(d) ==
    IF Milliseconds(d) = 0 THEN <<>>
    ELSE LET mm0 == d.seconds \div 60
             ss == d.seconds % 60
             hh == mm0 \div 60 + d.days * 24
             ms == d.microseconds \div 1000
         IN FormatD(hh) \o <<":">> \o FormatPadded(mm0, 2) \o <<":">>
                \o FormatPadded(ss, 2) \o <<".">> \o FormatPadded(ms, 3)

\* a __str__ that leaves the days out of the hours
DeltaStr_drops_days(d) ==
    IF Milliseconds(d) = 0 THEN <<>>
    ELSE LET mm0 == d.seconds \div 60
             ss == d.seconds % 60
             hh == mm0 \div 60
             mm == mm0 % 60
             ms == d.microseconds \div 1000
         IN FormatD(hh) \o <<":">> \o FormatPadded(mm, 2) \o <<":">>
                \o FormatPadded(ss, 2) \o <<".">> \o FormatPadded(ms, 3)

\* TimestampDelta.__str__
DeltaStr(d) ==
    IF Milliseconds(d) = 0 THEN <<>>
    ELSE LET mm0 == d.seconds \div 60
             ss == d.seconds % 60
             hh == mm0 \div 60 + d.days * 24
             mm == mm0 % 60
             ms == d.microseconds \div 1000
         IN FormatD(hh) \o <<":">> \o FormatPadded(mm, 2) \o <<":">>
                \o FormatPadded(ss, 2) \o <<".">> \o FormatPadded(ms, 3)

(***************************************************************************)
(* Timestamp                                                               *)
(***************************************************************************)
\* get_timestamp_from_string, lines 78-82: the milliseconds and the delta
FromMilliseconds(hours, minutes, seconds, milliseconds) ==
    IF ~milliseconds.ok \/ milliseconds.v < 0 \/ milliseconds.v >= 1000
    THEN RaiseValueError
    ELSE TimestampDelta(hours, minutes, seconds, milliseconds.v)

\* a parser that lets 60 seconds through
FromSeconds_allows_sixty(hours, minutes, seconds, split_secs) ==
    IF ~seconds.ok \/ seconds.v < 0 \/ seconds.v > 60 THEN RaiseValueError
    ELSE IF Len(split_secs) < 2 THEN RaiseIndexError
    ELSE FromMilliseconds(hours, minutes, seconds.v, PyInt(split_secs[2]))

\* get_timestamp_from_string, lines 75-78: the seconds, then split_secs[1]
FromSeconds(hours, minutes, seconds, split_secs) ==
    IF ~seconds.ok \/ seconds.v < 0 \/ seconds.v >= 60 THEN RaiseValueError
    ELSE IF Len(split_secs) < 2 THEN RaiseIndexError
    ELSE FromMilliseconds(hours, minutes, seconds.v, PyInt(split_secs[2]))

\* get_timestamp_from_string, lines 69-75: the hours and the minutes
FromHours(hours, minutes, split_secs) ==
    IF ~hours.ok \/ hours.v < 0 THEN RaiseValueError
    ELSE IF ~minutes.ok \/ minutes.v < 0 \/ minutes.v >= 60 THEN RaiseValueError
    ELSE FromSeconds(hours.digits, minutes.v, PyInt(split_secs[1]), split_secs)

\* get_timestamp_from_string, lines 67-69: split_time[2] must exist
FromSplitTime(split_time) ==
    IF Len(split_time) < 3 THEN RaiseIndexError
    ELSE FromHours(PyInt(split_time[1]), PyInt(split_time[2]),
                   Split1(split_time[3], "."))

\* Timestamp.get_timestamp_from_string: the delta, or the exception raised
\* (ValueError, IndexError, or the OverflowError of timedelta).
\* The statements are evaluated in the order of the source, so the first
\* failing one decides the kind of the exception.
get_timestamp_from_string(time_string) ==
    IF Len(time_string) = 0 THEN [kind |-> "ok", value |-> ZeroDelta]
    ELSE FromSplitTime(Split2(time_string, ":"))

\* Timestamp.__init__ once both texts are parsed
TimestampOf(s, e, description) ==
    IF s.kind # "ok" THEN [kind |-> s.kind, value |-> <<>>]
    ELSE IF e.kind # "ok" THEN [kind |-> e.kind, value |-> <<>>]
    ELSE [kind |-> "ok",
          value |-> <<[start_time |-> s.value, end_time |-> e.value,
                       description |-> description]>>]

\* Timestamp.__init__ on one record of the file: the Timestamp, or the
\* exception raised by the first text that does not parse.
Timestamp(start_time, end_time, description) ==
    TimestampOf(get_timestamp_from_string(start_time),
                get_timestamp_from_string(end_time), description)

\* Timestamp.get_value_from_index (columns are 0, 1, 2)
get_value_from_index(t, index) ==
    IF index = 0 THEN t.start_time ELSE IF index = 1 THEN t.end_time ELSE t.description

\* Timestamp.get_string_value_from_index
get_string_value_from_index(t, index) ==
    IF index = 0 THEN DeltaStr(t.start_time)
    ELSE IF index = 1 THEN DeltaStr(t.end_time)
    ELSE t.description

\* Timestamp.set_value_from_index
set_value_from_index(t, index, value) ==
    IF index = 0 THEN [t EXCEPT !.start_time = value]
    ELSE IF index = 1 THEN [t EXCEPT !.end_time = value]
    ELSE IF index = 2 THEN [t EXCEPT !.description = value]
    ELSE t

\* Timestamp.__repr__: the JSON object of one row, as the three texts it holds
TimestampRepr(t) ==
    [start_time |-> DeltaStr(t.start_time),
     end_time |-> DeltaStr(t.end_time),
     description |-> t.description]

(***************************************************************************)
(* TimestampList                                                           *)
(***************************************************************************)
\* TimestampList.__init__: one more row appended to the rows parsed so far
AppendParsed(head, t) ==
    IF head.kind # "ok" THEN head
    ELSE IF t.kind # "ok" THEN [kind |-> t.kind, list |-> <<>>]
    ELSE [kind |-> "ok", list |-> head.list \o t.value]

\* TimestampList.__init__(data): the rows are parsed in order and the first
\* failure aborts the construction with its exception.
RECURSIVE TimestampList(_)
TimestampList(data) ==
    IF Len(data) = 0 THEN [kind |-> "ok", list |-> <<>>]
    ELSE AppendParsed(TimestampList(SubSeq(data, 1, Len(data) - 1)),
                      Timestamp(data[Len(data)].start_time, data[Len(data)].end_time,
                                data[Len(data)].description))

\* TimestampList.append(timestamp)
append(list, timestamp) == Append(list, timestamp)

\* TimestampList.to_json: the JSON array, as the sequence of its objects
to_json(list) == [i \in 1..Len(list) |-> TimestampRepr(list[i])]

\* the sort key of TimestampList.sort
SortKey(t) == Milliseconds(t.start_time)

\* a descending sort that is the ascending order reversed
RECURSIVE InsertSorted_reverses(_, _, _)
InsertSorted_reverses(placed, x, reverse) ==
    IF Len(placed) = 0 THEN <<x>>
    ELSE LET last_row == placed[Len(placed)]
             after == IF reverse THEN SortKey(last_row) > SortKey(x)
                      ELSE SortKey(last_row) <= SortKey(x)
         IN IF after THEN Append(placed, x)
            ELSE Append(InsertSorted_reverses(SubSeq(placed, 1, Len(placed) - 1), x, reverse),
                        last_row)

\* the position at which sorted() places x among the already placed rows:
\* after every row that does not have to come after x, which keeps rows of
\* equal key in their original order in both directions
RECURSIVE InsertSorted(_, _, _)
InsertSorted(placed, x, reverse) ==
    IF Len(placed) = 0 THEN <<x>>
    ELSE LET last_row == placed[Len(placed)]
             after == IF reverse THEN SortKey(last_row) >= SortKey(x)
                      ELSE SortKey(last_row) <= SortKey(x)
         IN IF after THEN Append(placed, x)
            ELSE Append(InsertSorted(SubSeq(placed, 1, Len(placed) - 1), x, reverse),
                        last_row)

\* TimestampList.sort: sorted(self.list, key=..., reverse=reverse)
RECURSIVE SortList(_, _)
SortList(list, reverse) ==
    IF Len(list) = 0 THEN <<>>
    ELSE InsertSorted(SortList(SubSeq(list, 1, Len(list) - 1), reverse),
                      list[Len(list)], reverse)

(***************************************************************************)
(* The file system: the content of each existing file.  A timestamp file   *)
(* is the JSON array it holds (valid) or something json.load rejects, such *)
(* as a file truncated by open(..., "w") before a failed write.            *)
(***************************************************************************)
JsonFile(rows) == [valid |-> TRUE, rows |-> rows]

Truncated == [valid |-> FALSE, rows |-> <<>>]

T1000 == <<"0", ":", "0", "0", ":", "0", "1", ".", "0", "0", "0">>
T5000 == <<"0", ":", "0", "0", ":", "0", "5", ".", "0", "0", "0">>
T24h == <<"2", "4", ":", "0", "0", ":", "0", "0", ".", "0", "0", "0">>
TBadMinutes == <<"1", ":", "6", "0", ":", "0", "0", ".", "0", "0", "0">>
\* 24000000000:00:00.000, the first count of hours that is one day too many
TOverflow ==
    <<"2", "4", "0", "0", "0", "0", "0", "0", "0", "0", "0", ":", "0", "0", ":",
      "0", "0", ".", "0", "0", "0">>

TNoSeconds == <<"1", ":", "0", "0">>

\* the timestamp files on disk when the application starts
FileA ==
    JsonFile(<<[start_time |-> T1000, end_time |-> T5000, description |-> <<"a">>],
               [start_time |-> T5000, end_time |-> T1000, description |-> <<"b">>]>>)

FileBad ==
    JsonFile(<<[start_time |-> T1000, end_time |-> T5000, description |-> <<"a">>],
               [start_time |-> TBadMinutes, end_time |-> T5000, description |-> <<"b">>]>>)

InitialDisk == [f \in {"a.tmsp", "bad.tmsp"} |-> IF f = "a.tmsp" THEN FileA ELSE FileBad]

\* the names handed to set_timestamp_filename ("missing.tmsp" is no file)
TimestampFileNames == {"a.tmsp", "bad.tmsp", "missing.tmsp"}

\* the names handed to set_video_filename ("missing.mp4" is no file)
VideoFileNames == {"a.mp4", "missing.mp4"}

\* the texts typed into a start or end cell
EditTexts == {<<>>, T24h, TBadMinutes, TNoSeconds, TOverflow}

\* the texts typed into a description cell
EditDescriptions == {<<"a">>}

\* the texts typed into a start or end cell when the write of the file fails
\* (the write is reached only with a text that parses)
FailedWriteTexts == {T24h}

\* what the file system does to the write of setData
IoOutcomes == {"ok", "open_fails", "write_fails"}

\* the positions (ms) the player reports
Positions == {0, 1000, 5000, 5001}

\* the values (1/10000 of the duration) the progress slider is dragged to
SliderPositions == {0, 5001}

\* the duration (ms) the player knows for a playable media
MediaDuration == 10000

\* what get_duration() answers: 0 while the duration is unknown
Durations == {0, MediaDuration}

\* the value of the volume slider
InitialVolume == 20

\* how many writes of the timestamp file the file system may fail
MaxIoFailures == 1

(***************************************************************************)
(* Python floats (IEEE 754 binary64). A float d with 2^-4 <= |d| < 4, or   *)
(* the difference of two such floats, is a whole number of units of 2^-56; *)
(* it is held as <<sign, hi, lo>> for sign * (hi * 2^28 + lo) * 2^-56 with *)
(* 0 <= lo < 2^28, so that every number stays below 2^31.                  *)
(***************************************************************************)
Limb == 2 ^ 28

Double(sign, hi, lo) == <<sign, hi, lo>>

\* the magnitude <<hi, lo>> of a float
Magnitude(a) == <<a[2], a[3]>>

MagLess(m, n) == m[1] < n[1] \/ (m[1] = n[1] /\ m[2] < n[2])

\* the exact sum of two magnitudes
MagAdd(m, n) ==
    IF m[2] + n[2] >= Limb THEN <<m[1] + n[1] + 1, m[2] + n[2] - Limb>>
    ELSE <<m[1] + n[1], m[2] + n[2]>>

\* the exact difference of two magnitudes, the first not below the second
MagSub(m, n) ==
    IF m[2] < n[2] THEN <<m[1] - n[1] - 1, m[2] - n[2] + Limb>>
    ELSE <<m[1] - n[1], m[2] - n[2]>>

\* the distance between neighbouring floats around a magnitude, in units:
\* 2^-52 of its power of two (16 units from 1.0, 32 from 2.0, ...)
DoubleUlp(m) ==
    IF m[1] >= 2 * Limb THEN 32
    ELSE IF m[1] >= Limb THEN 16
    ELSE IF 2 * m[1] >= Limb THEN 8
    ELSE IF 4 * m[1] >= Limb THEN 4
    ELSE IF 8 * m[1] >= Limb THEN 2
    ELSE 1

\* an exact magnitude rounded to the nearest float, ties to the even one
RoundDouble(m) ==
    LET u == DoubleUlp(m)
        r == m[2] % u
        down == m[2] - r
        up == 2 * r > u \/ (2 * r = u /\ (down \div u) % 2 = 1)
        lo == IF up THEN down + u ELSE down
    IN IF lo >= Limb THEN <<m[1] + 1, lo - Limb>> ELSE <<m[1], lo>>

\* a + b of two Python floats
DoubleAdd(a, b) ==
    LET sum == IF a[1] = b[1] THEN <<a[1], MagAdd(Magnitude(a), Magnitude(b))>>
               ELSE IF MagLess(Magnitude(a), Magnitude(b))
               THEN <<b[1], MagSub(Magnitude(b), Magnitude(a))>>
               ELSE IF Magnitude(a) = Magnitude(b) THEN <<1, <<0, 0>>>>
               ELSE <<a[1], MagSub(Magnitude(a), Magnitude(b))>>
        rounded == RoundDouble(sum[2])
    IN Double(sum[1], rounded[1], rounded[2])

\* a < b of two Python floats
DoubleLess(a, b) ==
    IF a[1] # b[1] THEN a[1] < b[1]
    ELSE IF a[1] = 1 THEN MagLess(Magnitude(a), Magnitude(b))
    ELSE MagLess(Magnitude(b), Magnitude(a))

\* the distance between neighbouring C floats (24 significant bits) around a
\* magnitude, in units of 2^28 units
FloatUlp(m) ==
    IF m[1] >= 2 * Limb THEN 64
    ELSE IF m[1] >= Limb THEN 32
    ELSE IF 2 * m[1] >= Limb THEN 16
    ELSE IF 4 * m[1] >= Limb THEN 8
    ELSE IF 8 * m[1] >= Limb THEN 4
    ELSE 2

\* ctypes c_float: a Python float rounded to the nearest C float, ties to the
\* even one, and read back as a Python float
CFloat(a) ==
    LET u == FloatUlp(Magnitude(a))
        r == a[2] % u
        down == a[2] - r
        up == \/ 2 * r > u
              \/ 2 * r = u /\ a[3] > 0
              \/ 2 * r = u /\ a[3] = 0 /\ (down \div u) % 2 = 1
    IN Double(a[1], IF up THEN down + u ELSE down, 0)

\* the floats 0.1, 0.2, 1.0 and 2.0
PointOne == Double(1, 26843545, 161061274)

PointTwo == Double(1, 53687091, 53687092)

One == Double(1, Limb, 0)

Two == Double(1, 2 * Limb, 0)

\* the float -a
Negative(a) == Double(0 - a[1], a[2], a[3])

(***************************************************************************)
(* The external player (lib/vlc): commands are records [op, arg]           *)
(***************************************************************************)
Cmd(op, arg) == [op |-> op, arg |-> arg]

\* the effect of one command on the player
PlayerStep(p, c) ==
    IF c.op = "play"
    THEN IF ~p.media THEN p
         ELSE IF p.state \in {"stopped", "ended"}
              THEN [p EXCEPT !.state = "playing", !.time = 0]
              ELSE [p EXCEPT !.state = "playing"]
    ELSE IF c.op = "pause"
    THEN IF p.state = "playing" THEN [p EXCEPT !.state = "paused"]
         ELSE IF p.state = "paused" THEN [p EXCEPT !.state = "playing"]
         ELSE p
    ELSE IF c.op = "set_time"
    THEN IF p.state \in {"playing", "paused"} THEN [p EXCEPT !.time = c.arg] ELSE p
    ELSE IF c.op = "set_position"
    THEN IF p.state \in {"playing", "paused"}
         THEN [p EXCEPT !.time = (c.arg * MediaDuration) \div 10000]
         ELSE p
    ELSE IF c.op = "set_media"
    THEN [p EXCEPT !.media = (c.arg = 1), !.state = "stopped", !.time = 0]
    ELSE IF c.op = "audio_set_volume"
    THEN [p EXCEPT !.volume = c.arg]
    ELSE IF c.op = "audio_set_mute"
    THEN [p EXCEPT !.mute = (c.arg = 1)]
    ELSE IF c.op = "set_rate"
    THEN [p EXCEPT !.rate = IF p.c_float THEN CFloat(c.arg) ELSE c.arg]
    ELSE p

\* the player after a sequence of commands
RECURSIVE PlayerRun(_, _)
PlayerRun(p, cs) ==
    IF Len(cs) = 0 THEN p ELSE PlayerRun(PlayerStep(p, Head(cs)), Tail(cs))

\* the commands that move the playback position
IsSeek(c) == c.op = "set_time"

Seeks(cs) == SelectSeq(cs, IsSeek)

(***************************************************************************)
(* State                                                                   *)
(***************************************************************************)
VARIABLES
    \* TimestampModel
    list,                   \* TimestampList.list, the rows in memory
    input_file_location,    \* the backing file, None for the empty model
    disk,                   \* the files and their content
    signals,                \* the Qt signals the last handler made the model emit
    ret,                    \* what setData returned or raised, "none" for another handler
    io_failures,            \* how many writes the file system has failed
    \* MainWindow
    timestamp_filename,
    video_filename,
    media_start_time,
    media_end_time,
    restart_needed,
    media_started_playing,
    media_is_playing,
    play_pause_state,       \* play_pause_model.state
    slider_volume,          \* ui.slider_volume.value()
    mute,                   \* self.mute; mute_model.state is its negation
    message_box,            \* the text of the modal box set_video_filename waits in, "" for none
    \* the thread of the player
    in_handler,             \* Some(get_time()) while media_time_change_handler is
                            \* between its two reads of media_end_time, else None
    \* the external player
    player,
    \* what the last handler did
    last,                   \* its name
    args,                   \* its integer inputs, in order
    edit_text,              \* the text handed to it, <<>> when it takes none
    cmds,                   \* the commands it sent to the player, in order
    err,                    \* the error it showed or raised, "" for none
    \* history
    mode,                   \* the last operation that set the end bound
    reported_max            \* the largest position reported since the last tick, -1 for none

storeVars == <<list, input_file_location, disk, signals, ret, io_failures>>

windowVars == <<timestamp_filename, video_filename, media_start_time, media_end_time,
                restart_needed, media_started_playing, media_is_playing,
                play_pause_state, slider_volume>>

vars == <<list, input_file_location, disk, signals, ret, io_failures,
          timestamp_filename, video_filename, media_start_time, media_end_time,
          restart_needed, media_started_playing, media_is_playing,
          play_pause_state, slider_volume, mute, message_box, in_handler, player,
          last, args, edit_text, cmds, err, mode, reported_max>>

\* a handler of a user's input: the GUI thread takes none while a modal box
\* is open; it leaves the box, the mute flag and the handler of the player's
\* thread as they are
UserInput ==
    /\ message_box = ""
    /\ UNCHANGED <<mute, message_box, in_handler>>

\* MainWindow.__init__ with TimestampModel(None) and ToggleButtonModel()
Init ==
    /\ list = <<>>
    /\ input_file_location = None
    /\ disk = InitialDisk
    /\ signals = <<>>
    /\ ret = "none"
    /\ io_failures = 0
    /\ timestamp_filename = None
    /\ video_filename = None
    /\ media_start_time = None
    /\ media_end_time = None
    /\ restart_needed = FALSE
    /\ media_started_playing = FALSE
    /\ media_is_playing = FALSE
    /\ play_pause_state = TRUE
    /\ slider_volume = InitialVolume
    /\ mute = FALSE
    /\ message_box = ""
    /\ in_handler = None
    /\ player = [media |-> FALSE, state |-> "stopped", time |-> 0,
                 volume |-> InitialVolume, mute |-> FALSE,
                 rate |-> One, c_float |-> FALSE]
    /\ last = "init"
    /\ args = <<>>
    /\ edit_text = <<>>
    /\ cmds = <<Cmd("audio_set_volume", InitialVolume)>>
    /\ err = ""
    /\ mode = "init"
    /\ reported_max = -1

(***************************************************************************)
(* TimestampModel                                                          *)
(***************************************************************************)
\* TimestampModel.__init__(input_file_location): json.load, then
\* TimestampList(data); a file that is no JSON raises a ValueError
TimestampModel(content) ==
    IF ~content.valid THEN [kind |-> "ValueError", list |-> <<>>]
    ELSE TimestampList(content.rows)

TimeInvalid == <<"T", "i", "m", "e", " ", "i", "n", "v", "a", "l", "i", "d", ":", " ">>

Signal(name, text) == [name |-> name, text |-> text]

\* a setData that writes the list as it was before the edit
StoreParsed_writes_old(rows, file, updated, io) ==
    IF io = "TypeError"
    THEN [list |-> updated, file |-> file, signals |-> <<>>, ret |-> "TypeError"]
    ELSE IF io = "open_fails"
    THEN [list |-> updated, file |-> file, signals |-> <<>>, ret |-> "OSError"]
    ELSE IF io = "write_fails"
    THEN [list |-> updated, file |-> Truncated, signals |-> <<>>, ret |-> "OSError"]
    ELSE [list |-> updated, file |-> JsonFile(to_json(rows)),
          signals |-> <<Signal("dataChanged", <<>>)>>, ret |-> "True"]

\* setData, lines 188-192: the row is changed, then the file is written;
\* an open that raises leaves the call with the row changed
StoreParsed(rows, file, updated, io) ==
    IF io = "TypeError"
    THEN [list |-> updated, file |-> file, signals |-> <<>>, ret |-> "TypeError"]
    ELSE IF io = "open_fails"
    THEN [list |-> updated, file |-> file, signals |-> <<>>, ret |-> "OSError"]
    ELSE IF io = "write_fails"
    THEN [list |-> updated, file |-> Truncated, signals |-> <<>>, ret |-> "OSError"]
    ELSE [list |-> updated, file |-> JsonFile(to_json(updated)),
          signals |-> <<Signal("dataChanged", <<>>)>>, ret |-> "True"]

\* setData, lines 185-195, once the content is parsed: the except clause
\* takes a ValueError and an IndexError of the parser, any other exception
\* leaves the call
SetParsed(rows, file, row, column, content, parsed, io) ==
    IF parsed.kind \in {"ValueError", "IndexError"}
    THEN [list |-> rows, file |-> file,
          signals |-> <<Signal("time_parse_error", TimeInvalid \o content)>>,
          ret |-> "False"]
    ELSE IF parsed.kind # "ok"
    THEN [list |-> rows, file |-> file, signals |-> <<>>, ret |-> parsed.kind]
    ELSE StoreParsed(rows, file,
                     [rows EXCEPT ![row + 1] =
                          set_value_from_index(@, column, parsed.value)],
                     io)

\* TimestampModel.setData(index, content) for a valid index (row, column)
\* with the edit role: the list, the backing file, the signals emitted and
\* the value returned ("True", "False") or the exception that leaves the call
setData(rows, file, row, column, content, io) ==
    SetParsed(rows, file, row, column, content,
              IF column = 0 \/ column = 1 THEN get_timestamp_from_string(content)
              ELSE [kind |-> "ok", value |-> content],
              io)

\* open(input_file_location, "w"), line 189: with no file loaded the name is
\* None and open raises TypeError, whatever the file system would do
OpenOutcome(location, io) == IF location = None THEN "TypeError" ELSE io

\* the content of the backing file; no file is read or written when none
\* is loaded
BackingFile(location) == IF location = None THEN Truncated ELSE disk[location[1]]

ApplySetData(location, r) ==
    /\ list' = r.list
    /\ disk' = IF location = None THEN disk
               ELSE [disk EXCEPT ![location[1]] = r.file]
    /\ signals' = r.signals
    /\ ret' = r.ret
    /\ io_failures' = IF r.ret = "OSError" THEN io_failures + 1 ELSE io_failures

\* a setData whose edit reaches the start the window has armed
SetData_rearms(row, column, content, io) ==
    /\ row \in 0..(Len(list) - 1)
    /\ column \in 0..2
    /\ io # "ok" => io_failures < MaxIoFailures
    /\ ApplySetData(input_file_location,
                    setData(list, BackingFile(input_file_location), row, column,
                            content, OpenOutcome(input_file_location, io)))
    /\ media_start_time' = IF media_start_time = None THEN None
                           ELSE Some(Milliseconds(list'[row + 1].start_time))
    /\ last' = "setData"
    /\ args' = <<row, column>>
    /\ edit_text' = content
    /\ cmds' = <<>>
    /\ err' = ""
    /\ UNCHANGED <<input_file_location, timestamp_filename, video_filename,
                   media_end_time, restart_needed, media_started_playing,
                   media_is_playing, play_pause_state, slider_volume, player, mode,
                   reported_max>>
    /\ UserInput

\* the view commits an edit of cell (row, column); `io` is what the file
\* system does to the write
SetData(row, column, content, io) ==
    /\ row \in 0..(Len(list) - 1)
    /\ column \in 0..2
    /\ io # "ok" => io_failures < MaxIoFailures
    /\ ApplySetData(input_file_location,
                    setData(list, BackingFile(input_file_location), row, column,
                            content, OpenOutcome(input_file_location, io)))
    /\ last' = "setData"
    /\ args' = <<row, column>>
    /\ edit_text' = content
    /\ cmds' = <<>>
    /\ err' = ""
    /\ UNCHANGED <<input_file_location, windowVars, player, mode, reported_max>>
    /\ UserInput

\* a sort that writes the sorted list to the backing file
Sort_persists(reverse) ==
    /\ list' = SortList(list, reverse)
    /\ last' = "sort"
    /\ args' = <<IF reverse THEN 1 ELSE 0>>
    /\ edit_text' = <<>>
    /\ cmds' = <<>>
    /\ err' = ""
    /\ signals' = <<>>
    /\ ret' = "none"
    /\ disk' = IF input_file_location = None THEN disk
               ELSE [disk EXCEPT ![input_file_location[1]] = JsonFile(to_json(list'))]
    /\ UNCHANGED <<input_file_location, io_failures, windowVars, player, mode,
                   reported_max>>
    /\ UserInput

\* TimestampModel.sort(column, order)
Sort(reverse) ==
    /\ list' = SortList(list, reverse)
    /\ last' = "sort"
    /\ args' = <<IF reverse THEN 1 ELSE 0>>
    /\ edit_text' = <<>>
    /\ cmds' = <<>>
    /\ err' = ""
    /\ signals' = <<>>
    /\ ret' = "none"
    /\ UNCHANGED <<input_file_location, disk, io_failures, windowVars, player, mode,
                   reported_max>>
    /\ UserInput

\* the most rows a list is grown to
MaxRows == 4

\* the texts of the rows handed to append
T2000 == <<"0", ":", "0", "0", ":", "0", "2", ".", "0", "0", "0">>

T3000 == <<"0", ":", "0", "0", ":", "0", "3", ".", "0", "0", "0">>

\* a caller constructs Timestamp(start_time, end_time, description) and hands
\* it to TimestampList.append, with or without a file loaded: the list grows by the row;
\* nothing is written and no signal is emitted. A text that does not parse
\* raises in the constructor, before append is reached.
ListAppend(start_time, end_time, description) ==
    /\ Len(list) < MaxRows
    /\ LET t == Timestamp(start_time, end_time, description)
       IN /\ list' = IF t.kind = "ok" THEN append(list, t.value[1]) ELSE list
          /\ err' = IF t.kind = "ok" THEN "" ELSE t.kind
    /\ last' = "append"
    /\ args' = <<>>
    /\ edit_text' = start_time
    /\ cmds' = <<>>
    /\ signals' = <<>>
    /\ ret' = "none"
    /\ UNCHANGED <<input_file_location, disk, io_failures, windowVars, mute,
                   message_box, in_handler, player, mode, reported_max>>

(***************************************************************************)
(* MainWindow                                                              *)
(***************************************************************************)
Unbounded == -1

\* MainWindow.set_media_position(position): the progress slider was moved
set_media_position(position) ==
    /\ cmds' = <<Cmd("set_position", position)>>
    /\ player' = PlayerRun(player, cmds')
    /\ media_end_time' = Some(Unbounded)
    /\ mode' = "scrubbed"
    /\ last' = "set_media_position"
    /\ args' = <<position>>
    /\ edit_text' = <<>>
    /\ err' = ""
    /\ UNCHANGED <<storeVars, timestamp_filename, video_filename, media_start_time,
                   restart_needed, media_started_playing, media_is_playing,
                   play_pause_state, slider_volume, reported_max>>
    /\ UserInput

\* MainWindow.update_ui: when the started media is no longer playing, the
\* button shows play again, the media is set anew and the flags are reset
update_ui(started, playing, button, p, volume) ==
    IF started /\ p.state # "playing"
    THEN [started |-> FALSE, playing |-> FALSE, button |-> TRUE,
          cmds |-> <<Cmd("set_media", IF p.media THEN 1 ELSE 0),
                     Cmd("audio_set_volume", volume)>>]
    ELSE [started |-> started, playing |-> playing, button |-> button, cmds |-> <<>>]

\* a timer_handler that seeks and leaves the flag raised
timer_handler_keeps_flag(flag, start_time) ==
    IF flag
    THEN IF start_time = None
         THEN [cmds |-> <<>>, restart_needed |-> TRUE, err |-> "ArgumentError"]
         ELSE [cmds |-> <<Cmd("set_time", start_time[1])>>, restart_needed |-> TRUE,
               err |-> ""]
    ELSE [cmds |-> <<>>, restart_needed |-> FALSE, err |-> ""]

\* a timer_handler that clears the flag without seeking
timer_handler_clears_only(flag, start_time) ==
    [cmds |-> <<>>, restart_needed |-> FALSE, err |-> ""]

\* MainWindow.timer_handler: serve a flagged restart
timer_handler(flag, start_time) ==
    IF flag
    THEN IF start_time = None
         THEN [cmds |-> <<>>, restart_needed |-> TRUE, err |-> "ArgumentError"]
         ELSE [cmds |-> <<Cmd("set_time", start_time[1])>>, restart_needed |-> FALSE,
               err |-> ""]
    ELSE [cmds |-> <<>>, restart_needed |-> FALSE, err |-> ""]

\* one timeout of MainWindow.timer: update_ui, then timer_handler
Tick ==
    LET ui == update_ui(media_started_playing, media_is_playing, play_pause_state,
                        player, slider_volume)
        th == timer_handler(restart_needed, media_start_time)
    IN /\ media_started_playing' = ui.started
       /\ media_is_playing' = ui.playing
       /\ play_pause_state' = ui.button
       /\ restart_needed' = th.restart_needed
       /\ cmds' = ui.cmds \o th.cmds
       /\ player' = PlayerRun(player, cmds')
       /\ err' = th.err
       /\ last' = "tick"
       /\ args' = <<>>
       /\ edit_text' = <<>>
       /\ reported_max' = -1
       /\ UNCHANGED <<storeVars, timestamp_filename, video_filename, media_start_time,
                      media_end_time, slider_volume, mode>>
       /\ UNCHANGED <<mute, message_box, in_handler>>

\* media_time_change_handler, lines 216-217: the first read of media_end_time
\* makes the handler return when the end is unbounded
media_time_change_handler_returns(end_time) == end_time = Some(Unbounded)

\* a comparison that assigns its outcome to the flag
media_time_change_handler_assigns(end_time, flag, time) ==
    IF end_time = None THEN [restart_needed |-> flag, err |-> "TypeError"]
    ELSE [restart_needed |-> time > end_time[1], err |-> ""]

\* media_time_change_handler, lines 218-219: get_time() is compared with a
\* second read of media_end_time; comparing with None raises
media_time_change_handler_compares(end_time, flag, time) ==
    IF end_time = None THEN [restart_needed |-> flag, err |-> "TypeError"]
    ELSE IF time > end_time[1] THEN [restart_needed |-> TRUE, err |-> ""]
    ELSE [restart_needed |-> flag, err |-> ""]

\* MainWindow.media_time_change_handler when nothing writes media_end_time
\* between its two reads: the restart flag after the player has reported `time`
media_time_change_handler(end_time, flag, time) ==
    IF media_time_change_handler_returns(end_time)
    THEN [restart_needed |-> flag, err |-> ""]
    ELSE media_time_change_handler_compares(end_time, flag, time)

\* the player moves to `time` and sends MediaPlayerTimeChanged; on the thread
\* of the player the handler reads media_end_time and, unless it returns,
\* calls get_time(). The handler holds no lock, so the handlers of the GUI
\* thread may run before it reads media_end_time again.
MediaPlayerTimeChanged(time) ==
    /\ player.state \in {"playing", "paused"}
    /\ in_handler = None
    /\ player' = [player EXCEPT !.time = time]
    /\ IF media_time_change_handler_returns(media_end_time)
       THEN /\ in_handler' = None
            /\ last' = "media_time_change_handler"
       ELSE /\ in_handler' = Some(time)
            /\ last' = "media_time_change_handler_get_time"
    /\ err' = ""
    /\ cmds' = <<>>
    /\ args' = <<time>>
    /\ edit_text' = <<>>
    /\ reported_max' = IF time > reported_max THEN time ELSE reported_max
    /\ UNCHANGED <<storeVars, windowVars, mute, message_box, mode>>

\* the handler goes on after get_time(): the position is compared with
\* media_end_time as it is now
MediaTimeChangeHandlerCompares ==
    /\ in_handler # None
    /\ LET h == media_time_change_handler_compares(media_end_time, restart_needed,
                                                   in_handler[1])
       IN /\ restart_needed' = h.restart_needed
          /\ err' = h.err
    /\ in_handler' = None
    /\ cmds' = <<>>
    /\ last' = "media_time_change_handler"
    /\ args' = <<in_handler[1]>>
    /\ edit_text' = <<>>
    /\ reported_max' = IF in_handler[1] > reported_max THEN in_handler[1]
                       ELSE reported_max
    /\ UNCHANGED <<storeVars, timestamp_filename, video_filename, media_start_time,
                   media_end_time, media_started_playing, media_is_playing,
                   play_pause_state, slider_volume, mute, message_box, player, mode>>

\* the playing media reaches its end
MediaPlayerEndReached ==
    /\ player.state = "playing"
    /\ player' = [player EXCEPT !.state = "ended"]
    /\ cmds' = <<>>
    /\ err' = ""
    /\ last' = "end_reached"
    /\ args' = <<>>
    /\ edit_text' = <<>>
    /\ UNCHANGED <<storeVars, windowVars, mode, reported_max>>
    /\ UNCHANGED <<mute, message_box, in_handler>>

\* a run that seeks before it plays
run_commands_seek_first(start_time) == <<Cmd("set_time", start_time), Cmd("play", 0)>>

\* the two commands of MainWindow.run, in the order it sends them
run_commands(start_time) == <<Cmd("play", 0), Cmd("set_time", start_time)>>

\* MainWindow.run with row `selection` selected (0 for no selection), the
\* player answering get_duration() with `duration`, and the play/pause
\* button model in state `button` when run is entered
run(selection, duration, button) ==
    LET same == [start |-> media_start_time, end |-> media_end_time,
                 started |-> media_started_playing, playing |-> media_is_playing,
                 button |-> button, cmds |-> <<>>, mode |-> mode, err |-> ""]
    IN IF timestamp_filename = None
       THEN [same EXCEPT !.err = "No timestamp file chosen"]
       ELSE IF video_filename = None
       THEN [same EXCEPT !.err = "No video file chosen"]
       ELSE IF selection > 0
       THEN LET start == Milliseconds(get_value_from_index(list[selection], 0))
                end == Milliseconds(get_value_from_index(list[selection], 1))
            IN IF duration = 0
               THEN [same EXCEPT !.start = Some(start), !.end = Some(end),
                                 !.mode = "armed", !.err = "ZeroDivisionError"]
               ELSE [start |-> Some(start), end |-> Some(end), started |-> TRUE,
                     playing |-> TRUE, button |-> FALSE,
                     cmds |-> run_commands(start), mode |-> "armed", err |-> ""]
       ELSE [start |-> Some(0), end |-> Some(Unbounded), started |-> TRUE,
             playing |-> TRUE, button |-> FALSE, cmds |-> run_commands(0),
             mode |-> "free", err |-> ""]

ApplyRun(r) ==
    /\ media_start_time' = r.start
    /\ media_end_time' = r.end
    /\ media_started_playing' = r.started
    /\ media_is_playing' = r.playing
    /\ play_pause_state' = r.button
    /\ cmds' = r.cmds
    /\ player' = PlayerRun(player, r.cmds)
    /\ mode' = r.mode
    /\ err' = r.err

\* the run button is clicked or a row is double-clicked
Run(selection, duration) ==
    /\ selection \in 0..Len(list)
    /\ ApplyRun(run(selection, duration, play_pause_state))
    /\ last' = "run"
    /\ args' = <<selection, duration>>
    /\ edit_text' = <<>>
    /\ UNCHANGED <<storeVars, timestamp_filename, video_filename, restart_needed,
                   slider_volume, reported_max>>
    /\ UserInput

\* a play_pause that seeks to the armed start when it resumes
play_pause_reseeks(selection, duration, button) ==
    IF ~media_started_playing THEN run(selection, duration, button)
    ELSE [start |-> media_start_time, end |-> media_end_time,
          started |-> media_started_playing, playing |-> ~media_is_playing,
          button |-> media_is_playing,
          cmds |-> IF media_is_playing THEN <<Cmd("pause", 0)>>
                   ELSE <<Cmd("play", 0), Cmd("set_time", media_start_time[1])>>,
          mode |-> mode, err |-> ""]

\* MainWindow.play_pause with the button model in state `button` on entry
play_pause(selection, duration, button) ==
    IF ~media_started_playing THEN run(selection, duration, button)
    ELSE [start |-> media_start_time, end |-> media_end_time,
          started |-> media_started_playing, playing |-> ~media_is_playing,
          button |-> media_is_playing,
          cmds |-> IF media_is_playing THEN <<Cmd("pause", 0)>> ELSE <<Cmd("play", 0)>>,
          mode |-> mode, err |-> ""]

\* the space key: MainWindow.key_handler calls play_pause
KeySpace(selection, duration) ==
    /\ selection \in 0..Len(list)
    /\ ApplyRun(play_pause(selection, duration, play_pause_state))
    /\ last' = "play_pause"
    /\ args' = <<selection, duration>>
    /\ edit_text' = <<>>
    /\ UNCHANGED <<storeVars, timestamp_filename, video_filename, restart_needed,
                   slider_volume, reported_max>>
    /\ UserInput

\* ToggleButton.toggle: the first slot of the button's clicked signal
toggle(state) == ~state

\* the play/pause button is clicked: ToggleButton.toggle, then play_pause
ClickPlayPause(selection, duration) ==
    /\ selection \in 0..Len(list)
    /\ ApplyRun(play_pause(selection, duration, toggle(play_pause_state)))
    /\ last' = "click_play_pause"
    /\ args' = <<selection, duration>>
    /\ edit_text' = <<>>
    /\ UNCHANGED <<storeVars, timestamp_filename, video_filename, restart_needed,
                   slider_volume, reported_max>>
    /\ UserInput

\* the range of the volume slider of the main window
SliderVolumeMinimum == 0

SliderVolumeMaximum == 40

\* QSlider.setValue: the value is bounded by the range of the slider
SliderValue(value) ==
    IF value < SliderVolumeMinimum THEN SliderVolumeMinimum
    ELSE IF value > SliderVolumeMaximum THEN SliderVolumeMaximum
    ELSE value

\* the bounds of modify_volume
MinVolume == 0

MaxVolume == 40

\* MainWindow.set_volume(new_volume): the value is handed to the player as it is
set_volume(new_volume) == <<Cmd("audio_set_volume", new_volume)>>

\* a modify_volume without the upper bound
modify_volume_unbounded(volume, delta_percent) ==
    IF volume + delta_percent < MinVolume THEN MinVolume
    ELSE volume + delta_percent

\* MainWindow.modify_volume, lines 192-196: the volume it sends for a player
\* that reports `volume`
modify_volume(volume, delta_percent) ==
    IF volume + delta_percent < MinVolume THEN MinVolume
    ELSE IF volume + delta_percent > MaxVolume THEN MaxVolume
    ELSE volume + delta_percent

\* MainWindow.wheel_handler: the step for a wheel event with angleDelta().y() = y
wheel_handler(y) == IF y > 0 THEN 1 ELSE -1

\* a wheel event over the video frame: modify_volume sends the new volume and
\* sets the slider to what the player then reports; a slider whose value
\* changes emits valueChanged, which calls set_volume
WheelEvent(y) ==
    LET new_volume == modify_volume(player.volume, wheel_handler(y))
        reported == PlayerRun(player, set_volume(new_volume)).volume
    IN /\ slider_volume' = SliderValue(reported)
       /\ cmds' = set_volume(new_volume)
                      \o (IF slider_volume' # slider_volume
                          THEN set_volume(slider_volume') ELSE <<>>)
       /\ player' = PlayerRun(player, cmds')
       /\ err' = ""
       /\ last' = "wheel_handler"
       /\ args' = <<y>>
       /\ edit_text' = <<>>
       /\ UNCHANGED <<storeVars, timestamp_filename, video_filename, media_start_time,
                      media_end_time, restart_needed, media_started_playing,
                      media_is_playing, play_pause_state, mode, reported_max>>
       /\ UserInput

\* the volume slider is moved to `value`: valueChanged calls set_volume
SliderVolumeChanged(value) ==
    /\ value \in SliderVolumeMinimum..SliderVolumeMaximum
    /\ value # slider_volume
    /\ slider_volume' = value
    /\ cmds' = set_volume(value)
    /\ player' = PlayerRun(player, cmds')
    /\ err' = ""
    /\ last' = "set_volume"
    /\ args' = <<value>>
    /\ edit_text' = <<>>
    /\ UNCHANGED <<storeVars, timestamp_filename, video_filename, media_start_time,
                   media_end_time, restart_needed, media_started_playing,
                   media_is_playing, play_pause_state, mode, reported_max>>
    /\ UserInput

\* the player reports another volume than the one last set: it has no audio
\* output yet (-1), or the volume was changed outside the window
PlayerVolumeChanged(volume) ==
    /\ volume # player.volume
    /\ player' = [player EXCEPT !.volume = volume]
    /\ cmds' = <<>>
    /\ err' = ""
    /\ last' = "player_volume_changed"
    /\ args' = <<volume>>
    /\ edit_text' = <<>>
    /\ UNCHANGED <<storeVars, windowVars, mute, message_box, in_handler, mode,
                   reported_max>>

\* MainWindow.toggle_mute: the player is told the opposite of the mute it
\* reports, and self.mute is negated
toggle_mute(player_mute, window_mute) ==
    [cmds |-> <<Cmd("audio_set_mute", IF player_mute THEN 0 ELSE 1)>>,
     mute |-> ~window_mute]

\* the mute button is clicked; mute_model.setState(not self.mute) follows the
\* toggle of the button, so the model of the button is the negation of mute
ToggleMute ==
    /\ message_box = ""
    /\ LET t == toggle_mute(player.mute, mute)
       IN /\ cmds' = t.cmds
          /\ mute' = t.mute
    /\ player' = PlayerRun(player, cmds')
    /\ err' = ""
    /\ last' = "toggle_mute"
    /\ args' = <<>>
    /\ edit_text' = <<>>
    /\ UNCHANGED <<storeVars, windowVars, message_box, in_handler, mode, reported_max>>

\* the bounds of modify_rate, 0.2 and 2.0
MinRate == PointTwo

MaxRate == Two

\* MainWindow.speed_up_handler and slow_down_handler: the steps 0.1 and -0.1
\* handed to modify_rate
speed_up_handler == PointOne

slow_down_handler == Negative(PointOne)

\* MainWindow.modify_rate for a player that reports `rate`: the sum and the
\* two comparisons are those of Python floats
modify_rate(rate, delta_percent) ==
    LET new_rate == DoubleAdd(rate, delta_percent)
    IN IF DoubleLess(new_rate, MinRate) \/ DoubleLess(MaxRate, new_rate) THEN <<>>
       ELSE <<Cmd("set_rate", new_rate)>>

\* the speed-up or the slow-down button is clicked; get_rate() is the rate
\* the player holds
ModifyRate(delta_percent) ==
    /\ cmds' = modify_rate(player.rate, delta_percent)
    /\ player' = PlayerRun(player, cmds')
    /\ err' = ""
    /\ last' = "modify_rate"
    /\ args' = <<player.rate, delta_percent>>
    /\ edit_text' = <<>>
    /\ UNCHANGED <<storeVars, windowVars, mode, reported_max>>
    /\ UserInput

\* rates the player may hold that no click from 1.0 gives: the floats 0.2,
\* 0.25, 0.3, 1.9, 1.95 and 2.0
Rates ==
    {PointTwo, Double(1, 67108864, 0), Double(1, 80530636, 214748364),
     Double(1, 510027366, 107374176), Double(1, 523449139, 53687088), Two}

\* the player holds another rate than the one last set
PlayerRateChanged(rate) ==
    /\ rate # player.rate
    /\ player' = [player EXCEPT !.rate = rate]
    /\ cmds' = <<>>
    /\ err' = ""
    /\ last' = "player_rate_changed"
    /\ args' = <<rate>>
    /\ edit_text' = <<>>
    /\ UNCHANGED <<storeVars, windowVars, mute, message_box, in_handler, mode,
                   reported_max>>

\* MainWindow.set_video_filename(filename), the player answering
\* get_duration() of the parsed media with `duration`, with the window
\* fields as they are when it is entered. For a duration of 0 the name is
\* stored (line 379) and QMessageBox.warning (line 384) opens a modal box:
\* until the box is closed the timer and the player go on, and the handler
\* goes on with lines 385-386 after it. The boxes of the other errors are
\* followed by no statement, so the state while they are open is the state
\* after them and they are not kept open here.
set_video_filename(filename, duration, button) ==
    LET same == [video |-> video_filename, started |-> media_started_playing,
                 playing |-> media_is_playing, button |-> button, cmds |-> <<>>,
                 err |-> "", box |-> ""]
    IN IF filename = "missing.mp4"
       THEN [same EXCEPT !.err = "Cannot access video file"]
       ELSE IF duration = 0
       THEN [same EXCEPT !.video = Some(filename),
                         !.err = "Cannot play this media file",
                         !.box = "Cannot play this media file"]
       ELSE [video |-> Some(filename), started |-> FALSE, playing |-> FALSE,
             button |-> TRUE, cmds |-> <<Cmd("set_media", 1)>>, err |-> "",
             box |-> ""]

ApplyVideo(v) ==
    /\ video_filename' = v.video
    /\ media_started_playing' = v.started
    /\ media_is_playing' = v.playing
    /\ play_pause_state' = v.button
    /\ cmds' = v.cmds
    /\ player' = PlayerRun(player, v.cmds)
    /\ err' = v.err
    /\ message_box' = v.box

\* set_video_filename, lines 385-386, once the box is closed: the player is
\* left without media and the name is dropped
MessageBoxClosed ==
    /\ message_box # ""
    /\ message_box' = ""
    /\ video_filename' = None
    /\ cmds' = <<Cmd("set_media", 0)>>
    /\ player' = PlayerRun(player, cmds')
    /\ err' = ""
    /\ last' = "message_box_closed"
    /\ args' = <<>>
    /\ edit_text' = <<>>
    /\ UNCHANGED <<storeVars, timestamp_filename, media_start_time, media_end_time,
                   restart_needed, media_started_playing, media_is_playing,
                   play_pause_state, slider_volume, mute, in_handler, mode,
                   reported_max>>

\* a video file is chosen in the browse dialog
SetVideoFilename(filename, duration) ==
    /\ message_box = ""
    /\ UNCHANGED <<mute, in_handler>>
    /\ ApplyVideo(set_video_filename(filename, duration, play_pause_state))
    /\ last' = "set_video_filename"
    /\ args' = <<duration>>
    /\ edit_text' = <<>>
    /\ UNCHANGED <<storeVars, timestamp_filename, media_start_time, media_end_time,
                   restart_needed, slider_volume, mode, reported_max>>

\* a set_timestamp_filename that installs the new model before its rows are parsed
ApplyTimestampModel_installs_first(filename, model, sibling, duration) ==
    IF model.kind # "ok"
    THEN /\ err' = IF model.kind = "ValueError"
                   THEN "Timestamp file is invalid" ELSE model.kind
         /\ cmds' = <<>>
         /\ list' = model.list
         /\ UNCHANGED <<input_file_location, timestamp_filename,
                        video_filename, media_started_playing,
                        media_is_playing, play_pause_state, player, message_box>>
    ELSE /\ list' = model.list
         /\ input_file_location' = Some(filename)
         /\ timestamp_filename' = Some(filename)
         /\ IF sibling = None
            THEN /\ err' = ""
                 /\ cmds' = <<>>
                 /\ UNCHANGED <<video_filename, media_started_playing,
                                media_is_playing, play_pause_state, player, message_box>>
            ELSE ApplyVideo(set_video_filename(sibling[1], duration,
                                               play_pause_state))

\* set_timestamp_filename, lines 326-352, with the model the file gave
ApplyTimestampModel(filename, model, sibling, duration) ==
    IF model.kind # "ok"
    THEN /\ err' = IF model.kind = "ValueError"
                   THEN "Timestamp file is invalid" ELSE model.kind
         /\ cmds' = <<>>
         /\ UNCHANGED <<list, input_file_location, timestamp_filename,
                        video_filename, media_started_playing,
                        media_is_playing, play_pause_state, player, message_box>>
    ELSE /\ list' = model.list
         /\ input_file_location' = Some(filename)
         /\ timestamp_filename' = Some(filename)
         /\ IF sibling = None
            THEN /\ err' = ""
                 /\ cmds' = <<>>
                 /\ UNCHANGED <<video_filename, media_started_playing,
                                media_is_playing, play_pause_state, player, message_box>>
            ELSE ApplyVideo(set_video_filename(sibling[1], duration,
                                               play_pause_state))

\* MainWindow.set_timestamp_filename(filename): `sibling` is the video file
\* of the same base name found in the directory, None when there is none
SetTimestampFilename(filename, sibling, duration) ==
    /\ message_box = ""
    /\ UNCHANGED <<mute, in_handler>>
    /\ last' = "set_timestamp_filename"
    /\ args' = <<duration>>
    /\ edit_text' = <<>>
    /\ signals' = <<>>
    /\ ret' = "none"
    /\ UNCHANGED <<disk, io_failures, media_start_time, media_end_time,
                   restart_needed, slider_volume, mode, reported_max>>
    /\ IF filename \notin DOMAIN disk
       THEN /\ err' = "Cannot access timestamp file"
            /\ cmds' = <<>>
            /\ UNCHANGED <<list, input_file_location, timestamp_filename,
                           video_filename, media_started_playing, media_is_playing,
                           play_pause_state, player, message_box>>
       ELSE ApplyTimestampModel(filename, TimestampModel(disk[filename]), sibling,
                                duration)

(***************************************************************************)
(* The legacy command-line program (src/loop.py).  It shares no state with *)
(* the window: a call of parse_line is recorded in edit_text (the line),   *)
(* ret (how it ended) and list (the triple it returned, as one row).       *)
(***************************************************************************)
\* s.split(sep): every part
RECURSIVE SplitAll(_, _)
SplitAll(s, sep) ==
    IF IndexOf(s, sep) = 0 THEN <<s>>
    ELSE <<SubSeq(s, 1, IndexOf(s, sep) - 1)>>
             \o SplitAll(SubSeq(s, IndexOf(s, sep) + 1, Len(s)), sep)

\* datetime.timedelta(minutes=m, seconds=s) of two integers that are not
\* negative, given by their digits: the timedelta as Python normalises it,
\* or OverflowError when it holds more than MaxDays days
timedelta(minutes, seconds) ==
    LET m == DaysOf(minutes, 1440, 0, 0)
        s == DaysOf(seconds, 86400, 0, 0)
        rest == m.rest * 60 + s.rest
    IN IF m.overflow \/ s.overflow THEN RaiseOverflowError
       ELSE IF m.days + s.days + rest \div 86400 > MaxDays THEN RaiseOverflowError
       ELSE [kind |-> "ok",
             value |-> [days |-> m.days + s.days + rest \div 86400,
                        seconds |-> rest % 86400,
                        microseconds |-> 0]]

\* [int(a) for a in text.split(':')] unpacked into two names: each integer
\* by its digits (a part of a line split at the dashes holds no minus sign)
IntPair(parts) ==
    IF \E i \in 1..Len(parts) : ~PyInt(parts[i]).ok
    THEN [ok |-> FALSE, a |-> <<>>, b |-> <<>>]
    ELSE IF Len(parts) # 2 THEN [ok |-> FALSE, a |-> <<>>, b |-> <<>>]
    ELSE [ok |-> TRUE, a |-> PyInt(parts[1]).digits, b |-> PyInt(parts[2]).digits]

\* a description that is the third of all the parts between dashes
parse_line_description_third_part(line) == Strip(SplitAll(line, "-")[3])

\* parse_line, line 83: line.split('-', maxsplit=2)[2].strip()
parse_line_description(line) == Strip(Split2(line, "-")[3])

LegacyError(kind) == [kind |-> kind, value |-> <<>>]

\* parse_line, lines 79-83, with the two pairs of integers
ParsedLine(line, start, end) ==
    IF ~start.ok THEN LegacyError("ValueError")
    ELSE IF ~end.ok THEN LegacyError("ValueError")
    ELSE IF timedelta(start.a, start.b).kind # "ok"
    THEN LegacyError(timedelta(start.a, start.b).kind)
    ELSE IF timedelta(end.a, end.b).kind # "ok"
    THEN LegacyError(timedelta(end.a, end.b).kind)
    ELSE IF Len(Split2(line, "-")) < 3 THEN LegacyError("IndexError")
    ELSE [kind |-> "ok",
          value |-> <<[start_time |-> timedelta(start.a, start.b).value,
                       end_time |-> timedelta(end.a, end.b).value,
                       description |-> parse_line_description(line)]>>]

\* parse_line(line): the triple (start_delta, end_delta, description) as one
\* row, or the exception raised
parse_line(line) ==
    IF Len(SplitAll(line, "-")) < 2 THEN LegacyError("IndexError")
    ELSE ParsedLine(line, IntPair(SplitAll(SplitAll(line, "-")[1], ":")),
                    IntPair(SplitAll(SplitAll(line, "-")[2], ":")))

\* the times of the legacy lines, with the seconds they stand for
LegacyTimes ==
    {[text |-> <<"0", "1", ":", "0", "5">>, seconds |-> 65],
     [text |-> <<"0", "2", ":", "1", "0">>, seconds |-> 130],
     [text |-> <<"0", "0", ":", "0", "0">>, seconds |-> 0],
     [text |-> <<" ", "1", ":", "5", " ">>, seconds |-> 65],
     [text |-> <<"1", "5", "0", "0", ":", "0", "0">>, seconds |-> 90000]}

\* the descriptions of the legacy lines, with what is left of them stripped
LegacyDescriptions ==
    {[text |-> <<"I", "n", "t", "r", "o", " ", "s", "c", "e", "n", "e">>,
      stripped |-> <<"I", "n", "t", "r", "o", " ", "s", "c", "e", "n", "e">>],
     [text |-> <<"a", "-", "b", " ", "-", " ", "c", "\n">>,
      stripped |-> <<"a", "-", "b", " ", "-", " ", "c">>],
     [text |-> <<" ", "x", " ", "\n">>, stripped |-> <<"x">>],
     [text |-> <<>>, stripped |-> <<>>]}

LegacyLine(start, end, description) ==
    start.text \o <<"-">> \o end.text \o <<"-">> \o description.text

LegacyLines ==
    {LegacyLine(st, en, d) : st \in LegacyTimes, en \in LegacyTimes,
                             d \in LegacyDescriptions}

\* lines that are not of the form MM:SS-MM:SS-description: parts missing or
\* not numbers, minutes of 10^9 days, and seconds of ten digits
BrokenLines ==
    {<<"0", "1", ":", "0", "5", "-", "0", "2", ":", "1", "0">>,
     <<"0", "1", ":", "0", "5">>,
     <<"1", "-", "2", "-", "x">>,
     <<"a", "a", ":", "0", "5", "-", "0", "2", ":", "1", "0", "-", "x">>,
     <<"0", "1", ":", "0", "5", ":", "0", "0", "-", "0", "2", ":", "1", "0", "-", "x">>,
     <<"1", "4", "4", "0", "0", "0", "0", "0", "0", "0", "0", "0", "0", ":", "0", "0",
       "-", "0", ":", "0">>,
     <<"0", ":", "1", "0", "0", "0", "0", "0", "0", "0", "0", "0", "0",
       "-", "0", ":", "0", "-", "x">>}

\* one call of parse_line
ParseLine(line) ==
    /\ last' = "parse_line"
    /\ edit_text' = line
    /\ args' = <<>>
    /\ ret' = parse_line(line).kind
    /\ list' = IF parse_line(line).kind = "ok" THEN parse_line(line).value ELSE list
    /\ cmds' = <<>>
    /\ err' = ""
    /\ signals' = <<>>
    /\ UNCHANGED <<input_file_location, disk, io_failures, windowVars, player, mode,
                   reported_max>>
    /\ UNCHANGED <<mute, message_box, in_handler>>

(***************************************************************************)
(* Specifications                                                          *)
(***************************************************************************)
\* the loop controller, with the store as the timestamp file loads it
Next ==
    \/ \E f \in TimestampFileNames, sibling \in {None, Some("a.mp4")}, d \in Durations :
           SetTimestampFilename(f, sibling, d)
    \/ \E f \in VideoFileNames, d \in Durations : SetVideoFilename(f, d)
    \/ \E selection \in 0..2, d \in Durations : Run(selection, d)
    \/ \E selection \in 0..2, d \in Durations : KeySpace(selection, d)
    \/ \E selection \in 0..2, d \in Durations : ClickPlayPause(selection, d)
    \/ \E position \in SliderPositions : set_media_position(position)
    \/ \E time \in Positions : MediaPlayerTimeChanged(time)
    \/ MediaTimeChangeHandlerCompares
    \/ MessageBoxClosed
    \/ MediaPlayerEndReached
    \/ Tick

Spec == Init /\ [][Next]_vars

\* the window with its timer running: MainWindow.timer is started with a
\* period of 100 ms and never stopped, so a tick cannot be postponed for ever
SpecFair == Init /\ [][Next]_vars /\ WF_vars(Tick)

\* the timestamp store: loading, editing and sorting
NextStore ==
    \/ \E f \in TimestampFileNames : SetTimestampFilename(f, None, MediaDuration)
    \/ \E row \in 0..1, column \in 0..1, content \in EditTexts :
           SetData(row, column, content, "ok")
    \/ \E row \in 0..1, content \in EditDescriptions :
           SetData(row, 2, content, "ok")
    \/ \E row \in 0..1, column \in 0..1, content \in FailedWriteTexts,
            io \in IoOutcomes \ {"ok"} :
           SetData(row, column, content, io)
    \/ \E reverse \in BOOLEAN : Sort(reverse)

SpecStore == Init /\ [][NextStore]_vars

\* MainWindow.__init__ on a file system holding `files`
InitOn(files) ==
    /\ list = <<>>
    /\ input_file_location = None
    /\ disk = files
    /\ signals = <<>>
    /\ ret = "none"
    /\ io_failures = 0
    /\ timestamp_filename = None
    /\ video_filename = None
    /\ media_start_time = None
    /\ media_end_time = None
    /\ restart_needed = FALSE
    /\ media_started_playing = FALSE
    /\ media_is_playing = FALSE
    /\ play_pause_state = TRUE
    /\ slider_volume = InitialVolume
    /\ mute = FALSE
    /\ message_box = ""
    /\ in_handler = None
    /\ player = [media |-> FALSE, state |-> "stopped", time |-> 0,
                 volume |-> InitialVolume, mute |-> FALSE,
                 rate |-> One, c_float |-> FALSE]
    /\ last = "init"
    /\ args = <<>>
    /\ edit_text = <<>>
    /\ cmds = <<Cmd("audio_set_volume", InitialVolume)>>
    /\ err = ""
    /\ mode = "init"
    /\ reported_max = -1

\* timestamp files whose records fail to parse at the first, the second and
\* the third position, next to two files that load
FileOne ==
    JsonFile(<<[start_time |-> T5000, end_time |-> <<>>, description |-> <<"c">>]>>)

FileBadFirst ==
    JsonFile(<<[start_time |-> T1000, end_time |-> TNoSeconds, description |-> <<"a">>],
               [start_time |-> T5000, end_time |-> T1000, description |-> <<"b">>]>>)

FileBadThird ==
    JsonFile(<<[start_time |-> T1000, end_time |-> T5000, description |-> <<"a">>],
               [start_time |-> T5000, end_time |-> T1000, description |-> <<"b">>],
               [start_time |-> TBadMinutes, end_time |-> <<>>, description |-> <<"c">>]>>)

LoadFileNames == {"a.tmsp", "one.tmsp", "first.tmsp", "bad.tmsp", "third.tmsp"}

LoadDisk ==
    [f \in LoadFileNames |->
        IF f = "a.tmsp" THEN FileA
        ELSE IF f = "one.tmsp" THEN FileOne
        ELSE IF f = "first.tmsp" THEN FileBadFirst
        ELSE IF f = "bad.tmsp" THEN FileBad
        ELSE FileBadThird]

InitLoad == InitOn(LoadDisk)

\* loading timestamp files, good and bad, over a store that is being edited
NextLoad ==
    \/ \E f \in LoadFileNames \cup {"missing.tmsp"} :
           SetTimestampFilename(f, None, MediaDuration)
    \/ \E row \in 0..1, column \in 0..1 : SetData(row, column, T24h, "ok")
    \/ \E reverse \in BOOLEAN : Sort(reverse)

SpecLoad == InitLoad /\ [][NextLoad]_vars

\* a time text put together from the texts of its four components
TimeText(h, m, s, ms) == h \o <<":">> \o m \o <<":">> \o s \o <<".">> \o ms

\* component texts: two in range and one out of range for each component
HourParts == {<<"1">>, <<"2", "4">>, <<"-", "1">>}
MinuteParts == {<<"0", "2">>, <<"5", "9">>, <<"6", "0">>}
SecondParts == {<<"0", "3">>, <<"5", "9">>, <<"6", "0">>}
MsParts == {<<"0", "4", "5">>, <<"9", "9", "9">>, <<"1", "0", "0", "0">>}

\* every combination of the component texts
RangeTexts ==
    {TimeText(h, m, s, ms) : h \in HourParts, m \in MinuteParts, s \in SecondParts,
                             ms \in MsParts}

\* texts around zero and around the day, and negative components
EdgeTexts ==
    {<<>>,
     <<"0", ":", "0", "0", ":", "0", "0", ".", "0", "0", "0">>,
     <<"0", ":", "0", "0", ":", "0", "0", ".", "0", "0", "1">>,
     <<"2", "3", ":", "5", "9", ":", "5", "9", ".", "9", "9", "9">>,
     T24h,
     <<"1", ":", "-", "1", ":", "0", "0", ".", "0", "0", "0">>,
     <<"1", ":", "0", "0", ":", "-", "1", ".", "0", "0", "0">>,
     <<"1", ":", "0", "0", ":", "0", "0", ".", "-", "1">>}

\* texts that are not of the shape H:MM:SS.mmm
TNoMs == <<"1", ":", "0", "0", ":", "0", "0">>
TOneDigitMinute == <<"1", ":", "5", ":", "0", "3", ".", "0", "4", "5">>
TOneDigitSecond == <<"1", ":", "0", "2", ":", "3", ".", "0", "4", "5">>
TTwoDigitMs == <<"1", ":", "0", "2", ":", "0", "3", ".", "4", "5">>
TBlank == <<" ", "1", ":", "0", "2", ":", "0", "3", ".", "0", "4", "5">>
TUnderscore == <<"1", ":", "0", "_", "2", ":", "0", "3", ".", "0", "4", "5">>
TLetters == <<"a", "b", "c">>
TLetterMinute == <<"1", ":", "x", "x", ":", "0", "0", ".", "0", "0", "0">>

ShapeTexts ==
    {TNoSeconds, TNoMs, TOneDigitMinute, TOneDigitSecond, TTwoDigitMs, TBlank,
     TUnderscore, TLetters, TLetterMinute}

\* one-row timestamp files: one whose start text has no seconds part, one
\* whose start text has a one-digit minute
FileShort ==
    JsonFile(<<[start_time |-> TNoSeconds, end_time |-> <<>>, description |-> <<"d">>]>>)

FileLoose ==
    JsonFile(<<[start_time |-> TOneDigitMinute, end_time |-> <<>>,
                description |-> <<"e">>]>>)

TextFileNames == {"short.tmsp", "loose.tmsp"}

TextDisk == [f \in TextFileNames |-> IF f = "short.tmsp" THEN FileShort ELSE FileLoose]

InitText == InitOn(TextDisk)

\* the texts of the time cells: typed into the one row of a store, or loaded
NextText ==
    \/ \E f \in TextFileNames : SetTimestampFilename(f, None, MediaDuration)
    \/ \E content \in RangeTexts : SetData(0, 0, content, "ok")
    \/ \E content \in EdgeTexts : SetData(0, 0, content, "ok")
    \/ \E content \in ShapeTexts : SetData(0, 0, content, "ok")
    \/ \E content \in {<<>>, T24h} : SetData(0, 1, content, "ok")

SpecText == InitText /\ [][NextText]_vars

\* a file of four rows A, B, C, D with the starts 5, 3, 5, 1 ms
T1ms == <<"0", ":", "0", "0", ":", "0", "0", ".", "0", "0", "1">>
T3ms == <<"0", ":", "0", "0", ":", "0", "0", ".", "0", "0", "3">>
T5ms == <<"0", ":", "0", "0", ":", "0", "0", ".", "0", "0", "5">>
T3h == <<"3", ":", "0", "0", ":", "0", "0", ".", "0", "0", "0">>

FileFour ==
    JsonFile(<<[start_time |-> T5ms, end_time |-> <<>>, description |-> <<"A">>],
               [start_time |-> T3ms, end_time |-> <<>>, description |-> <<"B">>],
               [start_time |-> T5ms, end_time |-> <<>>, description |-> <<"C">>],
               [start_time |-> T1ms, end_time |-> <<>>, description |-> <<"D">>]>>)

SortDisk == [f \in {"four.tmsp"} |-> FileFour]

\* the starts typed into the rows before they are sorted
SortEditTexts == {T3h, T24h}

InitSort == InitOn(SortDisk)

\* sorting a store of four rows, in both directions, between edits of starts
NextSort ==
    \/ SetTimestampFilename("four.tmsp", None, MediaDuration)
    \/ \E row \in 0..3, content \in SortEditTexts : SetData(row, 0, content, "ok")
    \/ \E reverse \in BOOLEAN : Sort(reverse)

SpecSort == InitSort /\ [][NextSort]_vars

ArmDisk == [f \in {"a.tmsp"} |-> FileA]

\* the starts and ends typed into the rows before one of them is armed
ArmEditTexts == {T3h, T24h}

InitArm == InitOn(ArmDisk)

\* arming rows of a store whose starts and ends are being edited and sorted
NextArm ==
    \/ SetTimestampFilename("a.tmsp", Some("a.mp4"), MediaDuration)
    \/ \E row \in 0..1, column \in 0..1, content \in ArmEditTexts :
           SetData(row, column, content, "ok")
    \/ \E selection \in 0..2 : Run(selection, MediaDuration)
    \/ \E reverse \in BOOLEAN : Sort(reverse)

SpecArm == InitArm /\ [][NextArm]_vars

\* the volumes the player may report: none (-1), values of the range and the
\* player's own default
StartVolumes == {-1, 0, 20, 39, 40, 100}

\* the values the volume slider is moved to
SliderVolumes == {0, 1, 20, 40}

\* the wheel events: angleDelta().y() of a step back, of a horizontal step
\* and of a step forward
WheelDeltas == {-120, 0, 120}

\* the window constructed with the slider at the ends or in the middle of its
\* range: __init__ hands the slider's value to the player
InitVolume ==
    /\ list = <<>>
    /\ input_file_location = None
    /\ disk = InitialDisk
    /\ signals = <<>>
    /\ ret = "none"
    /\ io_failures = 0
    /\ timestamp_filename = None
    /\ video_filename = None
    /\ media_start_time = None
    /\ media_end_time = None
    /\ restart_needed = FALSE
    /\ media_started_playing = FALSE
    /\ media_is_playing = FALSE
    /\ play_pause_state = TRUE
    /\ slider_volume \in {SliderVolumeMinimum, InitialVolume, SliderVolumeMaximum}
    /\ mute = FALSE
    /\ message_box = ""
    /\ in_handler = None
    /\ player = [media |-> FALSE, state |-> "stopped", time |-> 0,
                 volume |-> slider_volume, mute |-> FALSE,
                 rate |-> One, c_float |-> FALSE]
    /\ last = "init"
    /\ args = <<>>
    /\ edit_text = <<>>
    /\ cmds = <<Cmd("audio_set_volume", slider_volume)>>
    /\ err = ""
    /\ mode = "init"
    /\ reported_max = -1

\* the volume: wheel steps, slider changes and the reset of a finished media
NextVolume ==
    \/ \E y \in WheelDeltas : WheelEvent(y)
    \/ \E value \in SliderVolumes : SliderVolumeChanged(value)
    \/ \E volume \in StartVolumes : PlayerVolumeChanged(volume)
    \/ ToggleMute
    \/ SetTimestampFilename("a.tmsp", Some("a.mp4"), MediaDuration)
    \/ Run(0, MediaDuration)
    \/ MediaPlayerEndReached
    \/ Tick

SpecVolume == InitVolume /\ [][NextVolume]_vars

\* the window as constructed, over a player that keeps the rate it is sent
\* as a Python float or as a C float
InitRate ==
    /\ list = <<>>
    /\ input_file_location = None
    /\ disk = InitialDisk
    /\ signals = <<>>
    /\ ret = "none"
    /\ io_failures = 0
    /\ timestamp_filename = None
    /\ video_filename = None
    /\ media_start_time = None
    /\ media_end_time = None
    /\ restart_needed = FALSE
    /\ media_started_playing = FALSE
    /\ media_is_playing = FALSE
    /\ play_pause_state = TRUE
    /\ slider_volume = InitialVolume
    /\ mute = FALSE
    /\ message_box = ""
    /\ in_handler = None
    /\ \E c_float \in BOOLEAN :
          player = [media |-> FALSE, state |-> "stopped", time |-> 0,
                    volume |-> InitialVolume, mute |-> FALSE,
                    rate |-> One, c_float |-> c_float]
    /\ last = "init"
    /\ args = <<>>
    /\ edit_text = <<>>
    /\ cmds = <<Cmd("audio_set_volume", InitialVolume)>>
    /\ err = ""
    /\ mode = "init"
    /\ reported_max = -1

\* the playback rate: clicks on the speed-up and slow-down buttons
NextRate ==
    \/ \E delta_percent \in {speed_up_handler, slow_down_handler} :
           ModifyRate(delta_percent)
    \/ \E rate \in Rates : PlayerRateChanged(rate)
    \/ SetTimestampFilename("a.tmsp", Some("a.mp4"), MediaDuration)

SpecRate == InitRate /\ [][NextRate]_vars

\* the list of a loaded model grown by its callers, edited and sorted
NextList ==
    \/ SetTimestampFilename("a.tmsp", None, MediaDuration)
    \/ \E start_time \in {T2000, TBadMinutes}, description \in {<<"c">>} :
           ListAppend(start_time, T3000, description)
    \/ \E row \in 0..2, content \in ArmEditTexts \cup {TBadMinutes} :
           SetData(row, 0, content, "ok")
    \/ \E reverse \in BOOLEAN : Sort(reverse)

SpecList == InitArm /\ [][NextList]_vars

\* the legacy program parsing lines of a timestamp file
NextLegacy ==
    \/ \E line \in LegacyLines : ParseLine(line)
    \/ \E line \in BrokenLines : ParseLine(line)

SpecLegacy == Init /\ [][NextLegacy]_vars

(***************************************************************************)
(* Properties                                                              *)
(***************************************************************************)
\* an interval is armed (the end bound is a position) with start < end
ArmedForward ==
    /\ media_start_time # None
    /\ media_end_time # None
    /\ media_end_time[1] # Unbounded
    /\ media_start_time[1] < media_end_time[1]

\* an interval is armed with end <= start
ArmedBackward ==
    /\ media_start_time # None
    /\ media_end_time # None
    /\ media_end_time[1] # Unbounded
    /\ media_end_time[1] <= media_start_time[1]

\* the step calls MainWindow.run: directly, or through play_pause before
\* the playback has started
CallsRun ==
    \/ last' = "run"
    \/ last' \in {"play_pause", "click_play_pause"} /\ ~media_started_playing

FilesChosen == timestamp_filename # None /\ video_filename # None

\* C1: while an interval with start < end is armed, a tick issues no seek
\* as long as no position reported since the previous tick exceeds the end;
\* a reported position beyond the end flags the restart, the flag stays
\* until a tick, and that tick issues exactly one seek to the armed start,
\* clears the flag and leaves the bounds armed.
C1_SeekOnlyPastEnd ==
    [][ArmedForward =>
          /\ (last' = "tick" /\ reported_max <= media_end_time[1])
                 => Seeks(cmds') = <<>>
          /\ (last' = "media_time_change_handler" /\ args'[1] > media_end_time[1])
                 => restart_needed'
          /\ (last' # "tick" /\ restart_needed) => restart_needed'
          /\ (last' = "tick" /\ restart_needed)
                 => /\ Seeks(cmds') = <<Cmd("set_time", media_start_time[1])>>
                    /\ ~restart_needed'
                    /\ UNCHANGED <<media_start_time, media_end_time>>]_vars

\* C2: media_time_change_handler sends no command to the player, changes
\* nothing of the window and the store but the restart flag, which it only
\* raises, and a second call with the same position changes nothing more;
\* the flag is raised by no other step, so the seek that serves it is sent
\* by a later tick.
C2_HandlerOnlyRaisesFlag ==
    [][/\ last' \in {"media_time_change_handler", "media_time_change_handler_get_time"}
           => /\ cmds' = <<>>
              /\ player' \in {player, [player EXCEPT !.time = args'[1]]}
              /\ UNCHANGED <<storeVars, timestamp_filename, video_filename,
                             media_start_time, media_end_time, media_started_playing,
                             media_is_playing, play_pause_state, slider_volume, mute>>
              /\ restart_needed => restart_needed'
       /\ last' = "media_time_change_handler"
           => media_time_change_handler(media_end_time', restart_needed',
                                        args'[1]).restart_needed = restart_needed'
       /\ (~restart_needed /\ restart_needed')
           => last' = "media_time_change_handler" /\ Seeks(cmds') = <<>>]_vars

C2_Witness ==
    /\ last = "media_time_change_handler"
    /\ restart_needed
    /\ media_end_time # None
    /\ media_end_time[1] # Unbounded
    /\ player.time > media_end_time[1]

\* C3 as stated: a run that arms a selected interval sends the seek to the
\* start first and the play command second.
C3_SeekThenPlay ==
    (last = "run" /\ args[1] > 0 /\ cmds # <<>>)
        => cmds = <<Cmd("set_time", media_start_time[1]), Cmd("play", 0)>>

\* C3 as amended: a run that arms a selected interval sends the play
\* command first and the seek to the start second, and nothing else.
C3_PlayThenSeek ==
    (last = "run" /\ args[1] > 0 /\ err = "")
        => cmds = <<Cmd("play", 0), Cmd("set_time", media_start_time[1])>>

C3_Witness ==
    /\ last = "run"
    /\ args[1] > 0
    /\ err = ""
    /\ cmds = <<Cmd("play", 0), Cmd("set_time", 1000)>>
    /\ player.state = "playing"
    /\ player.time = 1000

\* C4: set_media_position makes the end unbounded, and from then until the
\* next arm no tick issues a seek and no position notification flags a
\* restart.
C4_ScrubEndsLoop ==
    [][/\ last' = "set_media_position" => media_end_time' = Some(Unbounded)
       /\ (mode = "scrubbed" /\ last' = "tick") => Seeks(cmds') = <<>>
       /\ (mode = "scrubbed" /\ last' = "media_time_change_handler")
           => restart_needed' = restart_needed]_vars

\* C5 as stated: with an interval of end <= start armed, every reported
\* position >= end flags a restart.
C5_AtEndFlags ==
    [][(ArmedBackward /\ last' = "media_time_change_handler"
            /\ args'[1] >= media_end_time[1])
           => restart_needed']_vars

\* C5 as amended: a run on a row with end <= start arms it without an error
\* when the files are chosen and the duration is known; while it is armed
\* every reported position > end flags a restart, and the tick that finds
\* the flag seeks to the armed start and clears it, all without an error.
C5_PastEndRestarts ==
    [][/\ (/\ last' = "run"
           /\ FilesChosen
           /\ args'[1] > 0
           /\ args'[2] # 0
           /\ Milliseconds(list[args'[1]].end_time)
                  <= Milliseconds(list[args'[1]].start_time))
           => /\ err' = ""
              /\ media_start_time' = Some(Milliseconds(list[args'[1]].start_time))
              /\ media_end_time' = Some(Milliseconds(list[args'[1]].end_time))
              /\ media_started_playing'
       /\ (ArmedBackward /\ last' = "media_time_change_handler"
               /\ args'[1] > media_end_time[1])
           => restart_needed' /\ err' = ""
       /\ (ArmedBackward /\ last' = "tick" /\ restart_needed)
           => /\ Seeks(cmds') = <<Cmd("set_time", media_start_time[1])>>
              /\ ~restart_needed'
              /\ err' = ""]_vars

C5_Witness ==
    /\ ArmedBackward
    /\ last = "tick"
    /\ Seeks(cmds) = <<Cmd("set_time", media_start_time[1])>>
    /\ ~restart_needed
    /\ player.time = media_start_time[1]

\* C6: a run with no row selected sets the start to 0 and the end to
\* unbounded, and from then until the next arm no position notification
\* flags a restart and no tick issues a seek.
C6_FreePlayNeverSeeks ==
    [][/\ (CallsRun /\ FilesChosen /\ args'[1] = 0)
           => media_start_time' = Some(0) /\ media_end_time' = Some(Unbounded)
       /\ (mode = "free" /\ last' = "media_time_change_handler")
           => restart_needed' = restart_needed
       /\ (mode = "free" /\ last' = "tick") => Seeks(cmds') = <<>>]_vars

\* C7: a run on a selected row while get_duration() answers 0 shows an
\* error, sends nothing to the player and leaves the armed start, the armed
\* end and the three flags as they were.
C7_ZeroDurationChangesNothing ==
    [][(last' = "run" /\ FilesChosen /\ args'[1] > 0 /\ args'[2] = 0)
           => /\ err' # ""
              /\ cmds' = <<>>
              /\ UNCHANGED <<media_start_time, media_end_time, restart_needed,
                             media_started_playing, media_is_playing>>]_vars

\* what the view shows: the text of every cell
Display(rows) ==
    [i \in 1..Len(rows) |-> [c \in 0..2 |-> get_string_value_from_index(rows[i], c)]]

\* C8: a setData on column 0 or 1 whose text does not parse returns False
\* and leaves the rows (their number, their typed values and their texts)
\* and every file as they were.
C8_ParseFailureLeavesStore ==
    [][(/\ last' = "setData"
        /\ args'[2] \in {0, 1}
        /\ get_timestamp_from_string(edit_text').kind # "ok")
           => /\ ret' = "False"
              /\ Len(list') = Len(list)
              /\ list' = list
              /\ Display(list') = Display(list)
              /\ disk' = disk]_vars

\* C9: a setData that does not return True, whatever made it fail, leaves
\* the rows in memory as they were.
C9_FailureLeavesMemory ==
    [][(last' = "setData" /\ ret' # "True") => list' = list]_vars

\* the length of a delta in milliseconds
DurationMs(d) == (d.days * 86400 + d.seconds) * 1000 + d.microseconds \div 1000

\* the canonical text H:MM:SS.mmm of an offset, empty for zero
CanonicalText(ms) ==
    IF ms = 0 THEN <<>>
    ELSE FormatD(ms \div 3600000) \o <<":">> \o FormatPadded((ms \div 60000) % 60, 2)
             \o <<":">> \o FormatPadded((ms \div 1000) % 60, 2)
             \o <<".">> \o FormatPadded(ms % 1000, 3)

CanonicalRows(rows) ==
    [i \in 1..Len(rows) |->
        [start_time |-> CanonicalText(DurationMs(rows[i].start_time)),
         end_time |-> CanonicalText(DurationMs(rows[i].end_time)),
         description |-> rows[i].description]]

\* C10: after a setData that returned True the backing file holds every row
\* of the list in memory, in its order, each start and end in canonical text.
C10_FileHoldsWholeList ==
    (last = "setData" /\ ret = "True")
        => disk[input_file_location[1]] = JsonFile(CanonicalRows(list))

C10_Witness ==
    /\ last = "setData"
    /\ ret = "True"
    /\ io_failures > 0
    /\ Len(list) = 2
    /\ list[1].description = <<"b">>
    /\ list[1].start_time.days > 0
    /\ DurationMs(list[2].end_time) = 0

\* a record of the file has a start or an end text that does not parse
HasBadRecord(content) ==
    /\ content.valid
    /\ \E i \in 1..Len(content.rows) :
           \/ get_timestamp_from_string(content.rows[i].start_time).kind # "ok"
           \/ get_timestamp_from_string(content.rows[i].end_time).kind # "ok"

\* C11: a load of a file in which some record fails to parse, at whatever
\* position, leaves the rows in memory, their texts, the backing file of the
\* store and the recorded timestamp file name as they were, and ends with an
\* error.
C11_FailedLoadKeepsStore ==
    [][\A f \in DOMAIN disk :
          (SetTimestampFilename(f, None, MediaDuration) /\ HasBadRecord(disk[f]))
              => /\ list' = list
                 /\ Display(list') = Display(list)
                 /\ input_file_location' = input_file_location
                 /\ timestamp_filename' = timestamp_filename
                 /\ err' # ""]_vars

C11_Witness ==
    /\ last = "set_timestamp_filename"
    /\ err = "IndexError"
    /\ timestamp_filename = Some("one.tmsp")
    /\ Len(list) = 1
    /\ list[1].start_time.days > 0

\* the time cells of the rows in memory
TimeCells(rows) ==
    {get_value_from_index(rows[i], c) : i \in 1..Len(rows), c \in {0, 1}}

DayMs == 24 * 60 * 60 * 1000

\* C12: for every offset below 24 hours that the store holds after a
\* successful edit, zero included, parsing its text gives the offset back.
C12_RoundTrip ==
    (last = "setData" /\ ret = "True")
        => \A v \in TimeCells(list) :
               DurationMs(v) < DayMs
                   => get_timestamp_from_string(DeltaStr(v)) = [kind |-> "ok", value |-> v]

C12_Witness ==
    /\ last = "setData"
    /\ ret = "True"
    /\ edit_text = TimeText(<<"1">>, <<"0", "2">>, <<"0", "3">>, <<"0", "4", "5">>)
    /\ DurationMs(list[1].start_time) = 3723045
    /\ DurationMs(list[1].end_time) = 0

\* the text is digits ":" two digits ":" two digits "." three digits
HasShape(text) ==
    LET n == Len(text)
    IN /\ n >= 10
       /\ text[n - 3] = "." /\ text[n - 6] = ":" /\ text[n - 9] = ":"
       /\ \A i \in (1..(n - 10)) \cup {n - 8, n - 7, n - 5, n - 4, n - 2, n - 1, n} :
              IsDigit(text[i])

\* C13: the text of an offset is empty exactly when the offset is zero, and
\* for every other offset it is H:MM:SS.mmm with H the whole hours (also
\* beyond 24), MM and SS of two digits and mmm of three.
C13_TextForm ==
    (last = "setData" /\ ret = "True")
        => \A v \in TimeCells(list) :
               /\ DeltaStr(v) = <<>> <=> DurationMs(v) = 0
               /\ DurationMs(v) # 0
                      => /\ DeltaStr(v) = CanonicalText(DurationMs(v))
                         /\ HasShape(DeltaStr(v))

C13_Witness ==
    /\ last = "setData"
    /\ ret = "True"
    /\ list[1].start_time.days = 1
    /\ list[1].start_time.seconds = 59 * 60 + 59
    /\ list[1].start_time.microseconds = 999000
    /\ list[1].end_time.days = 1

\* a component text is an integer outside its range
OutOfRange(h, m, s, ms) ==
    \/ PyInt(h).v < 0
    \/ PyInt(m).v < 0 \/ PyInt(m).v >= 60
    \/ PyInt(s).v < 0 \/ PyInt(s).v >= 60
    \/ PyInt(ms).v < 0 \/ PyInt(ms).v >= 1000

OutOfRangeTexts ==
    {t \in EdgeTexts : \E i \in 1..Len(t) : t[i] = "-"}
        \cup {TimeText(p[1], p[2], p[3], p[4]) :
                  p \in {q \in HourParts \X MinuteParts \X SecondParts \X MsParts :
                             OutOfRange(q[1], q[2], q[3], q[4])}}

\* C14: a text of four integer components of which one is out of range
\* (negative hours; minutes or seconds outside [0,60); milliseconds outside
\* [0,1000)), whatever the others are, is refused with a ValueError: the
\* edit reports the text as invalid, returns False and stores nothing.
C14_OutOfRangeRejected ==
    [][(last' = "setData" /\ args'[2] = 0 /\ edit_text' \in OutOfRangeTexts)
           => /\ get_timestamp_from_string(edit_text').kind = "ValueError"
              /\ ret' = "False"
              /\ signals' = <<Signal("time_parse_error", TimeInvalid \o edit_text')>>
              /\ list' = list
              /\ disk' = disk]_vars

C14_Witness ==
    /\ last = "setData"
    /\ edit_text = TimeText(<<"2", "4">>, <<"5", "9">>, <<"6", "0">>, <<"9", "9", "9">>)
    /\ ret = "False"
    /\ Len(list) = 1
    /\ list[1].start_time.days = 1

\* a record of the file has a non-empty start or end text not of the shape
HasOddShape(content) ==
    /\ content.valid
    /\ \E i \in 1..Len(content.rows) :
           \E t \in {content.rows[i].start_time, content.rows[i].end_time} :
               t # <<>> /\ ~HasShape(t)

\* C15: a non-empty start or end text that is not of the shape H:MM:SS.mmm
\* is refused as an invalid time on both paths: an edit returns False and
\* reports the text, a load shows the file as invalid, and neither stores
\* anything.
C15_ShapeEnforced ==
    [][/\ (last' = "setData" /\ args'[2] \in {0, 1} /\ edit_text' # <<>>
               /\ ~HasShape(edit_text'))
           => /\ ret' = "False"
              /\ signals' = <<Signal("time_parse_error", TimeInvalid \o edit_text')>>
              /\ list' = list
       /\ \A f \in DOMAIN disk :
              (SetTimestampFilename(f, None, MediaDuration) /\ HasOddShape(disk[f]))
                  => err' = "Timestamp file is invalid" /\ list' = list]_vars

\* the place of a row in a list in which every row is different
PositionOf(rows, r) == CHOOSE k \in 1..Len(rows) : rows[k] = r

\* the descriptions of the rows, in their order
Descriptions(rows) == [i \in 1..Len(rows) |-> rows[i].description[1]]

\* the lengths of the starts of the rows, in their order
Starts(rows) == [i \in 1..Len(rows) |-> DurationMs(rows[i].start_time)]

\* C16: a sort, ascending or descending, leaves any two rows of equal start
\* in the order they had before it.
C16_SortStable ==
    [][last' = "sort"
           => \A i, j \in 1..Len(list) :
                  (i < j /\ list[i].start_time = list[j].start_time)
                      => PositionOf(list', list[i]) < PositionOf(list', list[j])]_vars

C16_Witness ==
    /\ last = "sort"
    /\ args = <<0>>
    /\ Starts(list) = <<1, 3, 5, 5>>
    /\ Descriptions(list) = <<"D", "B", "A", "C">>

\* the two lists hold the same rows, each as often
IsPermutation(a, b) ==
    /\ Len(a) = Len(b)
    /\ \A k \in 1..Len(a) :
           Cardinality({i \in 1..Len(a) : a[i] = a[k]})
               = Cardinality({i \in 1..Len(b) : b[i] = a[k]})

\* C18: after a sort the list is a permutation of the list before it; the
\* starts of adjacent rows, as durations, do not decrease after an ascending
\* sort and do not increase after a descending one.
C18_SortOrdersByStart ==
    [][last' = "sort"
           => /\ IsPermutation(list', list)
              /\ \A k \in 1..(Len(list') - 1) :
                     IF args'[1] = 0
                     THEN Starts(list')[k] <= Starts(list')[k + 1]
                     ELSE Starts(list')[k] >= Starts(list')[k + 1]]_vars

\* C19: a sort writes no file and changes no row: the list after it holds
\* the rows it held before, and the store stays bound to the same file.
C19_SortOnlyReorders ==
    [][last' = "sort"
           => /\ disk' = disk
              /\ IsPermutation(list', list)
              /\ input_file_location' = input_file_location
              /\ io_failures' = io_failures]_vars

C19_Witness ==
    /\ last = "sort"
    /\ Len(list) = 4
    /\ list[1].start_time.days = 1
    /\ input_file_location # None
    /\ disk[input_file_location[1]] # JsonFile(to_json(list))

\* C17: the start and the end that run takes from the selected row are the
\* lengths of its offsets in milliseconds, ((H*60 + MM)*60 + SS)*1000 + mmm,
\* also for offsets of 24 hours and more.
C17_ArmedValueIsLength ==
    (last = "run" /\ args[1] > 0 /\ err = "")
        => /\ media_start_time = Some(DurationMs(list[args[1]].start_time))
           /\ media_end_time = Some(DurationMs(list[args[1]].end_time))

\* C20: a line MM:SS-MM:SS-description parses to a start of
\* start_min*60 + start_sec seconds, an end of end_min*60 + end_sec seconds
\* and the description that is everything after the second dash, stripped,
\* further dashes included.
C20_LegacyLine ==
    last = "parse_line"
        => \A st \in LegacyTimes, en \in LegacyTimes, d \in LegacyDescriptions :
               edit_text = LegacyLine(st, en, d)
                   => /\ ret = "ok"
                      /\ Len(list) = 1
                      /\ DurationMs(list[1].start_time) = st.seconds * 1000
                      /\ DurationMs(list[1].end_time) = en.seconds * 1000
                      /\ list[1].description = d.stripped

C20_Witness ==
    /\ last = "parse_line"
    /\ edit_text = <<"0", "1", ":", "0", "5", "-", "0", "2", ":", "1", "0", "-",
                     "I", "n", "t", "r", "o", " ", "s", "c", "e", "n", "e">>
    /\ ret = "ok"
    /\ DurationMs(list[1].start_time) = 65000
    /\ DurationMs(list[1].end_time) = 130000
    /\ list[1].description = <<"I", "n", "t", "r", "o", " ", "s", "c", "e", "n", "e">>

\* a step of play_pause, from the space key or from the button
PlayPauseStep == last' \in {"play_pause", "click_play_pause"}

\* what run would do for the inputs of the step, whatever the button shows
RunOutcome == run(args'[1], args'[2], play_pause_state)

\* C21: play_pause before playback has started does what run does for the
\* same selection: it arms and plays, or is rejected as run is. Once playback
\* has started it sends exactly one command to the player, pause when
\* playing and play when paused, sends no seek, leaves the armed start and
\* end and the restart flag as they are, and flips media_is_playing.
C21_PlayPause ==
    [][PlayPauseStep =>
          /\ ~media_started_playing
                => /\ media_start_time' = RunOutcome.start
                   /\ media_end_time' = RunOutcome.end
                   /\ media_started_playing' = RunOutcome.started
                   /\ media_is_playing' = RunOutcome.playing
                   /\ cmds' = RunOutcome.cmds
                   /\ err' = RunOutcome.err
          /\ media_started_playing
                => /\ cmds' = <<Cmd(IF media_is_playing THEN "pause" ELSE "play", 0)>>
                   /\ Seeks(cmds') = <<>>
                   /\ UNCHANGED <<media_start_time, media_end_time, restart_needed>>
                   /\ media_is_playing' = ~media_is_playing
                   /\ media_started_playing']_vars

\* playback of an armed interval was paused and is resumed by play_pause
\* while a restart is flagged: one play command, the flag still raised
C21_Witness ==
    /\ last = "play_pause"
    /\ cmds = <<Cmd("play", 0)>>
    /\ media_started_playing
    /\ media_is_playing
    /\ restart_needed
    /\ mode = "armed"
    /\ media_start_time = Some(1000)
    /\ player.state = "playing"

\* the names of the notifications emitted by the last call
SignalNames == {signals[i].name : i \in 1..Len(signals)}

\* C22: every setData on a valid cell emits exactly one notification:
\* dataChanged exactly when the row was changed and the file holds the new
\* list, time_parse_error with the text of the edit exactly when the edit was
\* rejected and the store left as it was; never both and never none.
C22_ExactlyOneNotification ==
    [][last' = "setData" =>
          /\ Len(signals') = 1
          /\ signals'[1].name \in {"dataChanged", "time_parse_error"}
          /\ signals'[1].name = "dataChanged"
                <=> /\ ret' = "True"
                    /\ list' = [list EXCEPT ![args'[1] + 1] =
                                   set_value_from_index(@, args'[2],
                                       IF args'[2] = 2 THEN edit_text'
                                       ELSE get_timestamp_from_string(edit_text').value)]
                    /\ disk'[input_file_location[1]] = JsonFile(to_json(list'))
          /\ signals'[1].name = "time_parse_error"
                <=> /\ ret' = "False"
                    /\ list' = list
                    /\ disk' = disk
                    /\ signals'[1].text = TimeInvalid \o edit_text']_vars

\* the commands that seek, play, pause or set the volume or the rate
IsPlaybackCommand(c) ==
    c.op \in {"set_time", "set_position", "play", "pause", "audio_set_volume", "set_rate"}

\* C23: while no media is loaded or its duration is not known
\* (video_filename is None), a request of the user sends no seek,
\* set-position, play, pause, volume or rate command to the player, is
\* answered with an error and leaves the fields of the controller as they
\* were.
C23_NoCommandWithoutMedia ==
    [][(/\ video_filename = None
        /\ last' \in {"run", "play_pause", "click_play_pause", "set_media_position"})
           => /\ SelectSeq(cmds', IsPlaybackCommand) = <<>>
              /\ err' # ""
              /\ UNCHANGED <<media_start_time, media_end_time, restart_needed,
                             media_started_playing, media_is_playing>>]_vars

\* the volumes sent to the player by the last step
VolumesSent(cs) == {cs[i].arg : i \in {j \in 1..Len(cs) : cs[j].op = "audio_set_volume"}}

\* C24: every volume sent to the player lies in 0..40, for any sequence of
\* wheel steps and slider changes and any volume the player starts with; a
\* wheel step sends the reported volume plus or minus one, and the nearest
\* bound when that leaves the range.
C24_VolumeInRange ==
    [][/\ \A v \in VolumesSent(cmds') : 0 <= v /\ v <= 40
       /\ last' = "wheel_handler"
             => LET stepped == player.volume + (IF args'[1] > 0 THEN 1 ELSE -1)
                IN /\ Len(cmds') >= 1
                   /\ cmds'[1] = Cmd("audio_set_volume",
                                     IF stepped < 0 THEN 0
                                     ELSE IF stepped > 40 THEN 40 ELSE stepped)
                   /\ player'.volume \in 0..40
       /\ last' = "set_volume" => cmds' = <<Cmd("audio_set_volume", args'[1])>>]_vars

\* a wheel step forward at the upper bound: 40 is sent again
C24_Witness ==
    /\ last = "wheel_handler"
    /\ args = <<120>>
    /\ cmds = <<Cmd("audio_set_volume", 40)>>
    /\ player.volume = 40
    /\ slider_volume = 40

\* C25: run copies the numbers of the selected row: the armed start and end
\* are the milliseconds of the row as it is when run is called, and a
\* setData (on the armed row or another), a sort or a reload of the store
\* leaves the armed start and end as they are until the next run.
C25_ArmedBoundsAreCopies ==
    [][/\ last' \in {"setData", "sort", "set_timestamp_filename"}
             => UNCHANGED <<media_start_time, media_end_time>>
       /\ (last' = "run" /\ args'[1] > 0 /\ err' = "")
             => /\ media_start_time' = Some(Milliseconds(list[args'[1]].start_time))
                /\ media_end_time' = Some(Milliseconds(list[args'[1]].end_time))
                /\ list' = list]_vars

\* row 1 was armed with 1000..5000 and its start was then edited to 3:00:00.000
C25_Witness ==
    /\ last = "setData"
    /\ args = <<0, 0>>
    /\ ret = "True"
    /\ mode = "armed"
    /\ media_start_time = Some(1000)
    /\ media_end_time = Some(5000)
    /\ Milliseconds(list[1].start_time) = 3 * 60 * 60 * 1000

\* a tick has just served a flagged restart with a seek to the armed start
RestartServed ==
    /\ last = "tick"
    /\ ~restart_needed
    /\ media_start_time # None
    /\ Seeks(cmds) = <<Cmd("set_time", media_start_time[1])>>

\* C26: with the timer firing fairly, a raised restart flag leads to a tick
\* that seeks to the armed start and clears the flag; the flag is never
\* raised just after a tick; and the tick that finds the flag raised seeks
\* exactly once, to the start armed at that moment.
C26_RestartEventuallyServed ==
    /\ restart_needed ~> RestartServed
    /\ [](last = "tick" => ~restart_needed)
    /\ [][(last' = "tick" /\ restart_needed)
             => /\ media_start_time # None
                /\ Seeks(cmds') = <<Cmd("set_time", media_start_time[1])>>
                /\ ~restart_needed']_vars

\* a forward interval was armed, flagged and served while the media plays
C26_Witness ==
    /\ RestartServed
    /\ ArmedForward
    /\ media_is_playing
    /\ player.state = "playing"
    /\ player.time = media_start_time[1]

\* C27: before anything has set the bounds, the end is the unbounded marker,
\* and a position notification delivered then, whatever the position,
\* neither flags a restart nor fails.
C27_InitialEndUnbounded ==
    (mode = "init" /\ media_start_time = None)
        => /\ media_end_time = Some(Unbounded)
           /\ \A time \in Positions :
                  media_time_change_handler(media_end_time, restart_needed, time)
                      = [restart_needed |-> FALSE, err |-> ""]

\* the playback was started and has been paused through play_pause
PausedByPlayPause ==
    /\ media_started_playing
    /\ ~media_is_playing
    /\ player.state = "paused"

\* C28: a playback that was started and then paused through play_pause stays
\* paused over any number of ticks, and the next play_pause resumes it: one
\* play command, no seek, the armed start and end as they were.
C28_ResumeAfterTicks ==
    [][/\ (last' = "tick" /\ PausedByPlayPause)
             => /\ PausedByPlayPause'
                /\ UNCHANGED <<media_start_time, media_end_time>>
       /\ (PlayPauseStep /\ PausedByPlayPause)
             => /\ cmds' = <<Cmd("play", 0)>>
                /\ UNCHANGED <<media_start_time, media_end_time>>
                /\ media_is_playing']_vars

\* C29: in every reachable state the model of the play/pause button is in
\* state True exactly when media_is_playing is false.
C29_ButtonShowsPlaying == play_pause_state = ~media_is_playing

\* the last step has loaded a new media into the player
LoadedNewMedia ==
    /\ last \in {"set_video_filename", "set_timestamp_filename"}
    /\ \E i \in 1..Len(cmds) : cmds[i] = Cmd("set_media", 1)

\* C30: once a new media has been loaded, nothing of the loop of the previous
\* media acts on it: the tick that follows issues no seek and a position
\* notification that follows raises no flag, also when a restart was flagged
\* or an end was armed at the time of the load.
C30_NewMediaStartsClean ==
    [][LoadedNewMedia
          => /\ last' = "tick" => Seeks(cmds') = <<>>
             /\ last' = "media_time_change_handler" => restart_needed' = FALSE]_vars

====
